---- MODULE Spec2Model ----
(***************************************************************************)
(* A model of goa's design compiler: the DSL evaluation engine (RunDSL,    *)
(* executeDSL, the context stack and the error list), the Validate pass    *)
(* over the design tree and the Finalize pass.                             *)
(*                                                                         *)
(* Two specifications share the variables:                                 *)
(*   Spec          the engine: top-level builder misuse, RunDSL running    *)
(*                 the registered bodies phase by phase, Validate,         *)
(*                 Finalize and the return of RunDSL;                      *)
(*   SpecFinalize  the end of RunDSL, Validate and the second pass, on     *)
(*                 design trees drawn from a bounded set;                  *)
(*   SpecLoad      Primitive.Load called on a value of a bounded set;      *)
(*   SpecValidate  Validate called directly (Design.Validate and           *)
(*                 ActionDefinition.Validate) on design trees drawn from   *)
(*                 a bounded set of trees built as the tests build them.   *)
(*                                                                         *)
(* Go maps are iterated in an unspecified order: every loop over a map     *)
(* that returns early is modelled by enumerating the orders.               *)
(***************************************************************************)
EXTENDS Integers, Sequences, FiniteSets, TLC

VARIABLES
    Design,       \* "nil" or "set": the Design global
    apiDSL,       \* TRUE when Design.DSL is not nil
    Types,        \* Design.Types: name -> UserTypeDefinition
    Resources,    \* Design.Resources: name -> ResourceDefinition
    MediaTypes,   \* Design.MediaTypes: name -> MediaTypeDefinition
    Errors,       \* the Errors global (MultiError), a sequence
    ctxStack,     \* the ctxStack global, a sequence of contexts
    frames,       \* the Go call stack of executeDSL calls in progress
    pc,           \* position of RunDSL
    ret,          \* what the last call of RunDSL returned
    run,          \* history of the current run of RunDSL; under SpecLoad the
                  \* arguments of the call of Load
    vlog          \* history of the direct calls of Validate and of Load

treeVars == <<Design, apiDSL, Types, Resources, MediaTypes>>
engineVars == <<Errors, ctxStack, frames, pc, ret, run>>
vars == <<Design, apiDSL, Types, Resources, MediaTypes, Errors, ctxStack,
          frames, pc, ret, run, vlog>>

----------------------------------------------------------------------------
(* Bounds of the model *)

\* builder calls one body makes
MaxOps == 2
\* errors the error list holds before error-raising calls are no longer explored
MaxErrors == 2
\* direct Validate calls of SpecValidate
MaxCalls == 2

----------------------------------------------------------------------------
(* Values of the design tree *)

NoErr == <<>>
IsErr(e) == e # NoErr

\* %d of fmt.Errorf for the status codes of the model
StatusCodes == {0, 200, 404}
StatusStr == [n \in StatusCodes |-> CASE n = 0 -> "0" [] n = 200 -> "200" [] n = 404 -> "404"]

\* An AttributeDefinition: Kind is the kind of a.Type, Members the Object's
\* members, Elem the Array's element (a sequence of length 0 or 1),
\* Validations the Names of its RequiredValidationDefinitions, in order.
Att(kind, members, elem, validations) ==
    [Kind |-> kind, Members |-> members, Elem |-> elem, Validations |-> validations]

Prim(kind) == Att(kind, <<>>, <<>>, <<>>)
Obj(members, validations) == Att("Object", members, <<>>, validations)
Arr(elem) == Att("Array", <<>>, <<elem>>, <<>>)

\* A route: verb and path, the path a sequence of segments
Seg(s) == [wc |-> FALSE, s |-> s]
Wc(s) == [wc |-> TRUE, s |-> s]
Route(verb, path) == [Verb |-> verb, Path |-> path]

\* A ResponseDefinition: Status 0, MediaType "" and Headers <<>> are unset
Response(status, mt) == [Status |-> status, MediaType |-> mt, Headers |-> <<>>]
WithHeaders(resp, headers) == [resp EXCEPT !.Headers = headers]

\* &ActionDefinition{Name: name}
NewAction(name) ==
    [Name |-> name, Routes |-> <<>>, Responses |-> <<>>, Params |-> <<>>, Payload |-> <<>>]

NewResource(name) ==
    [Name |-> name, ParentName |-> "", CanonicalAction |-> "", MediaType |-> "",
     Responses |-> <<>>, Actions |-> <<>>]

\* A MediaTypeDefinition: Atts are the members of its Object, Views the names
\* of its views, Links its links by name, BaseType <<>> for nil or <<members>>
MediaType(typeName, identifier, type, atts, views) ==
    [TypeName |-> typeName, Identifier |-> identifier, Type |-> type,
     Atts |-> atts, Views |-> views, Links |-> <<>>, BaseType |-> <<>>]

\* A UserTypeDefinition: its name, its AttributeDefinition and its BaseType,
\* <<>> for nil or <<the AttributeDefinition of the base type>>
UserType(typeName, att) == [TypeName |-> typeName, Att |-> att, BaseType |-> <<>>]

----------------------------------------------------------------------------
(* The Validate pass (design/validation.go).  A Validate operator yields   *)
(* the set of outcomes the code can produce over the iteration orders of   *)
(* its maps: an outcome is the error returned (NoErr for nil) and the      *)
(* media types as the call leaves them.                                    *)

Out(e, mts) == [err |-> e, mts |-> mts]

\* the design tree: every field of every definition
Tree(resources, mts) == [R |-> resources, M |-> mts]

\* mime.ParseMediaType succeeds on these identifiers of the model
ValidIdentifiers == {"application/json", "plain/text"}
MimeParses_Any(id) == TRUE
MimeParses(id) == id \in ValidIdentifiers

DefaultIdentifier == "plain/text"

\* the test of one attribute of a media type for its view
AttViewErr(m, n, mts) ==
    LET att == m.Atts[n] IN
    IF att.View = "" THEN NoErr
    ELSE IF att.MT = "" THEN <<"attribute defines a view but its type is not MediaTypeDefinition", n, m.Identifier>>
    ELSE IF att.View \notin mts[att.MT].Views THEN <<"attribute uses unknown view", n, m.Identifier, att.View>>
    ELSE NoErr

\* MediaTypeDefinition.Validate on mts[name]
MediaTypeDefinitionValidate(name, mts) ==
    LET m == mts[name] IN
    IF m.TypeName = "" THEN {Out(<<"Media type must have a name">>, mts)}
    ELSE IF m.Identifier # "" /\ ~MimeParses(m.Identifier)
    THEN {Out(<<"invalid media type identifier", m.Identifier>>, mts)}
    ELSE LET m1 == IF m.Identifier = "" THEN [m EXCEPT !.Identifier = DefaultIdentifier] ELSE m
             m2 == IF m1.Type = "Nil" THEN [m1 EXCEPT !.Type = "String"] ELSE m1
             mts2 == [mts EXCEPT ![name] = m2]
             bad == IF m2.Type = "Object"
                    THEN {n \in DOMAIN m2.Atts : IsErr(AttViewErr(m2, n, mts2))}
                    ELSE {}
         IN  IF bad = {} THEN {Out(NoErr, mts2)}
             ELSE {Out(AttViewErr(m2, n, mts2), mts2) : n \in bad}

\* A LinkDefinition of a media type: MediaType is "" for nil, hasParent is
\* FALSE for a nil Parent
Link(name, view) == [Name |-> name, View |-> view, MediaType |-> "", hasParent |-> TRUE]

\* LinkDefinition.Validate on a link of the media type m: the error returned.
\* No Validate of validation.go calls it.
LinkDefinitionValidate(l, m, mts) ==
    LET target ==
            IF l.MediaType # "" THEN <<l.MediaType>>
            ELSE IF l.Name \in DOMAIN m.Atts /\ m.Atts[l.Name].MT # ""
            THEN <<m.Atts[l.Name].MT>> ELSE <<>>
    IN  IF l.MediaType = "" /\ l.Name = "" THEN <<"Links must have a name">>
        ELSE IF l.MediaType = "" /\ ~l.hasParent
        THEN <<"Link must have a parent media type", l.Name>>
        ELSE IF l.MediaType = "" /\ m.Type # "Object"
        THEN <<"Link parent media type must be an Object", l.Name>>
        ELSE IF l.MediaType = "" /\ l.Name \notin DOMAIN m.Atts
        THEN <<"Link name must match one of the parent media type attribute names", l.Name>>
        ELSE IF l.MediaType = "" /\ m.Atts[l.Name].MT = ""
        THEN <<"Link attribute type must be a media type", l.Name>>
        ELSE IF l.View \notin mts[target[1]].Views
        THEN <<"Link uses view which does not exist on target media type", l.Name, l.View>>
        ELSE NoErr

\* ResponseDefinition.Validate
ResponseDefinitionValidate(r, mts) ==
    IF r.Status = 0 THEN {Out(<<"response status not defined">>, mts)}
    ELSE IF r.MediaType # "" /\ r.MediaType \in DOMAIN mts
    THEN MediaTypeDefinitionValidate(r.MediaType, mts)
    ELSE {Out(NoErr, mts)}

\* UserTypeDefinition.Validate: the method of the user type, which hides the
\* Validate of the AttributeDefinition it embeds
UserTypeDefinitionValidate(u) ==
    IF u.TypeName = "" THEN <<"User type must have a name">> ELSE NoErr

\* The loop over a.Validations of AttributeDefinition.Validate, from the
\* i-th validation and the j-th name of it on: the first error, or NoErr
RECURSIVE RequiredErr(_, _, _)
RequiredErr(a, i, j) ==
    IF i > Len(a.Validations) THEN NoErr
    ELSE IF a.Kind # "Object" THEN <<"only objects may define a Required validation">>
    ELSE IF j > Len(a.Validations[i]) THEN RequiredErr(a, i + 1, 1)
    ELSE IF a.Validations[i][j] \notin DOMAIN a.Members
    THEN <<"required field does not exist", a.Validations[i][j]>>
    ELSE RequiredErr(a, i, j + 1)

\* AttributeDefinition.Validate: the set of errors it can return
RECURSIVE AttributeDefinitionValidate(_)
AttributeDefinitionValidate(a) ==
    LET first == RequiredErr(a, 1, 1) IN
    IF IsErr(first) THEN {first}
    ELSE IF a.Kind = "Object"
    THEN LET errs == UNION {AttributeDefinitionValidate(a.Members[n]) \ {NoErr} :
                            n \in DOMAIN a.Members}
         IN  IF errs = {} THEN {NoErr} ELSE errs
    ELSE {NoErr}

\* the test of one parameter of ActionDefinition.ValidateParams
ParamErrs(a, n) ==
    LET p == a.Params[1].Members[n] IN
    IF n = "" THEN {<<"action has parameter with no name", a.Name>>}
    ELSE IF p.Kind = "Nil" THEN {<<"type of parameter cannot be nil", n, a.Name>>}
    ELSE IF p.Kind = "Object" THEN {<<"parameter cannot be an object", n, a.Name>>}
    ELSE {IF IsErr(e) THEN <<"invalid definition for parameter", n, a.Name>> \o e ELSE NoErr :
          e \in AttributeDefinitionValidate(p)}

\* ActionDefinition.ValidateParams: the set of errors it can return
ValidateParams(a) ==
    IF a.Params = <<>> THEN {NoErr}
    ELSE IF a.Params[1].Kind # "Object" THEN {<<"Params field of action is not an object", a.Name>>}
    ELSE LET errs == UNION {ParamErrs(a, n) \ {NoErr} : n \in DOMAIN a.Params[1].Members}
         IN  IF errs = {} THEN {NoErr} ELSE errs

\* ResponseStep without the comparison of the statuses
ResponseStep_NoStatusCheck(a, i, mts) ==
    LET r == a.Responses[i] IN
    {IF IsErr(o.err)
     THEN Out((IF r.Status = 0 THEN <<"invalid response definition">>
               ELSE <<"invalid response definition", StatusStr[r.Status]>>) \o o.err, o.mts)
     ELSE o : o \in ResponseDefinitionValidate(r, mts)}

\* one iteration of the loop over a.Responses of ActionDefinition.Validate
ResponseStep(a, i, mts) ==
    LET r == a.Responses[i] IN
    IF \E j \in DOMAIN a.Responses : i # j /\ r.Status = a.Responses[j].Status
    THEN {Out(<<"Multiple response definitions with status code", StatusStr[r.Status]>>, mts)}
    ELSE {IF IsErr(o.err)
          THEN Out((IF r.Status = 0 THEN <<"invalid response definition">>
                    ELSE <<"invalid response definition", StatusStr[r.Status]>>) \o o.err, o.mts)
          ELSE o : o \in ResponseDefinitionValidate(r, mts)}

\* the loop over a.Responses, the responses of todo left to visit
RECURSIVE ResponsesLoop(_, _, _)
ResponsesLoop(a, todo, mts) ==
    IF todo = {} THEN {Out(NoErr, mts)}
    ELSE UNION {UNION {IF IsErr(o.err) THEN {o} ELSE ResponsesLoop(a, todo \ {i}, o.mts) :
                       o \in ResponseStep(a, i, mts)} : i \in todo}

\* the end of ActionDefinition.Validate: the params, then the payload
ParamsAndPayload(a, mts) ==
    UNION {IF IsErr(e) THEN {Out(e, mts)}
           ELSE IF a.Payload # <<>> /\ IsErr(UserTypeDefinitionValidate(a.Payload[1]))
           THEN {Out(<<"invalid payload definition for action", a.Name>>
                     \o UserTypeDefinitionValidate(a.Payload[1]), mts)}
           ELSE {Out(NoErr, mts)} : e \in ValidateParams(a)}

\* ActionDefinition.Validate without the test of the routes
ActionDefinitionValidate_NoRouteTest(a, mts) ==
    IF a.Name = "" THEN {Out(<<"Action name cannot be empty">>, mts)}
    ELSE UNION {IF IsErr(o.err) THEN {o} ELSE ParamsAndPayload(a, o.mts) :
                o \in ResponsesLoop(a, DOMAIN a.Responses, mts)}

\* ActionDefinition.Validate
ActionDefinitionValidate(a, mts) ==
    IF a.Name = "" THEN {Out(<<"Action name cannot be empty">>, mts)}
    ELSE IF Len(a.Routes) = 0 THEN {Out(<<"No route defined for action", a.Name>>, mts)}
    ELSE UNION {IF IsErr(o.err) THEN {o} ELSE ParamsAndPayload(a, o.mts) :
                o \in ResponsesLoop(a, DOMAIN a.Responses, mts)}

\* the loop over r.Actions of ResourceDefinition.Validate
RECURSIVE ActionsLoop(_, _, _)
ActionsLoop(r, todo, mts) ==
    IF todo = {} THEN {Out(NoErr, mts)}
    ELSE UNION {UNION {IF IsErr(o.err)
                       THEN {Out(<<"Action", r.Actions[n].Name>> \o o.err, o.mts)}
                       ELSE ActionsLoop(r, todo \ {n}, o.mts) :
                       o \in ActionDefinitionValidate(r.Actions[n], mts)} : n \in todo}

\* the end of ResourceDefinition.Validate, after the loop over the actions
\* (resources of the model have no BaseParams)
ResourceTail(r, resources, mts) ==
    IF r.CanonicalAction # "" /\ ~\E n \in DOMAIN r.Actions : r.Actions[n].Name = r.CanonicalAction
    THEN {Out(<<"Unknown canonical action", r.CanonicalAction>>, mts)}
    ELSE IF r.ParentName # "" /\ r.ParentName \notin DOMAIN resources
    THEN {Out(<<"Parent resource not found", r.ParentName>>, mts)}
    ELSE IF r.MediaType # "" /\ r.MediaType \in DOMAIN mts
    THEN MediaTypeDefinitionValidate(r.MediaType, mts)
    ELSE {Out(NoErr, mts)}

\* ResourceDefinition.Validate
ResourceDefinitionValidate(r, resources, mts) ==
    IF r.Name = "" THEN {Out(<<"Resource name cannot be empty">>, mts)}
    ELSE UNION {IF IsErr(o.err) THEN {o} ELSE ResourceTail(r, resources, o.mts) :
                o \in ActionsLoop(r, DOMAIN r.Actions, mts)}

\* one iteration of the loop over a.Resources of APIDefinition.Validate
ResourceStep(n, resources, mts) ==
    LET r == resources[n] IN
    {IF IsErr(o.err) THEN Out(<<"Resource", r.Name>> \o o.err, o.mts)
     ELSE IF r.ParentName # "" /\ r.ParentName \notin DOMAIN resources
     THEN Out(<<"Resource", r.Name, "Unknown parent resource", r.ParentName>>, o.mts)
     ELSE o : o \in ResourceDefinitionValidate(r, resources, mts)}

\* the loop over a.Resources returning after the first resource it visits
ResourcesLoop_FirstOnly(todo, resources, mts) ==
    IF todo = {} THEN {Out(NoErr, mts)}
    ELSE UNION {ResourceStep(n, resources, mts) : n \in todo}

\* the loop over a.Resources, the resources of todo left to visit
RECURSIVE ResourcesLoop(_, _, _)
ResourcesLoop(todo, resources, mts) ==
    IF todo = {} THEN {Out(NoErr, mts)}
    ELSE UNION {UNION {IF IsErr(o.err) THEN {o} ELSE ResourcesLoop(todo \ {n}, resources, o.mts) :
                       o \in ResourceStep(n, resources, mts)} : n \in todo}

\* APIDefinition.Validate (Design.Validate)
APIDefinitionValidate(resources, mts) ==
    ResourcesLoop(DOMAIN resources, resources, mts)

----------------------------------------------------------------------------
(* The DSL engine: the context stack, the error list and executeDSL *)

\* what RunDSL returned: "none" while it has not returned, "nil", the error of
\* Design.Validate ("validate error") or the error list ("Errors")
Returned(kind, val) == [kind |-> kind, val |-> val]

\* a DSL evaluation context: the definition a body runs against
Ctx(kind, name) == [kind |-> kind, name |-> name]

\* contextStack.current: the top of the stack, <<>> for nil
current(s) == IF Len(s) = 0 THEN <<>> ELSE <<s[Len(s)]>>

\* the kind of the current context, "nil" at top level: what the type
\* assertions of actionDefinition, resourceDefinition, ... test
CurrentKind(s) == IF current(s) = <<>> THEN "nil" ELSE current(s)[1].kind

\* ReportError keeping the last error only
ReportError_Overwrite(errors, s, msg) ==
    <<[msg |-> msg,
       in |-> IF current(s) = <<>> THEN <<"top level">>
              ELSE <<current(s)[1].kind, current(s)[1].name>>]>>

\* ReportError: the error appended to Errors, with the current context as suffix
\* (the file and line of the error are not modelled)
ReportError(errors, s, msg) ==
    Append(errors, [msg |-> msg,
                    in |-> IF current(s) = <<>> THEN <<"top level">>
                           ELSE <<current(s)[1].kind, current(s)[1].name>>])

\* incompatibleDSL reporting nothing
incompatibleDSL_Silent(errors, s, dslFunc) == errors

\* incompatibleDSL("Routing") reports "invalid use of Routing"
incompatibleDSL(errors, s, dslFunc) == ReportError(errors, s, <<"invalid use of", dslFunc>>)

\* actionDefinition(true): ok when the current context is an ActionDefinition
actionDefinition(s) == CurrentKind(s) = "action"

\* resourceDefinition(true): ok when the current context is a ResourceDefinition
resourceDefinition(s) == CurrentKind(s) = "resource"

\* executeDSL: the push before the body runs
ExecuteDSLPush(s, ctx) == Append(s, ctx)

\* executeDSL leaving its context on the stack
ExecuteDSLPop_Keep(s) == s

\* executeDSL: the pop after the body returned
ExecuteDSLPop(s) == SubSeq(s, 1, Len(s) - 1)

\* executeDSL: its result, true when the body recorded no error
ExecuteDSLResult(errors, initCount) == Len(errors) <= initCount

\* a call of executeDSL in progress: its ctx argument, its initCount, the
\* builder calls its body made so far, the definition under construction
\* (the ActionDefinition of Action, not yet in the tree) and, as history,
\* the stack the call found
Frame(ctx, initCount, def, saved) ==
    [ctx |-> ctx, initCount |-> initCount, ops |-> 0, def |-> def, saved |-> saved]

Top == frames[Len(frames)]

\* m with m[k] = v
Put(m, k, v) == [x \in DOMAIN m \cup {k} |-> IF x = k THEN v ELSE m[x]]

----------------------------------------------------------------------------
(* The Finalize pass *)

\* RouteDefinition.FullPath: the routes of the model have no base path
FullPath(r) == r.Path

\* ExtractWildcards: the names of the wildcards of a path, in order
RECURSIVE ExtractWildcards(_)
ExtractWildcards(path) ==
    IF path = <<>> THEN <<>>
    ELSE (IF path[1].wc THEN <<path[1].s>> ELSE <<>>) \o ExtractWildcards(Tail(path))

\* Design.Responses: the responses the API declares
APIResponses ==
    [n \in {"OK", "NotFound"} |->
        IF n = "OK" THEN Response(200, "mapi") ELSE Response(404, "")]

\* Design.DefaultResponses: built-in responses
DefaultResponses ==
    [n \in {"OK", "NotFound", "Created"} |->
        IF n = "OK" THEN Response(200, "mdef")
        ELSE IF n = "NotFound" THEN Response(404, "mdef")
        ELSE WithHeaders(Response(201, ""), <<"Location">>)]

\* Merge adding the headers of the other definition to its own
Merge_AppendHeaders(resp, other) ==
    [Status |-> IF resp.Status = 0 THEN other.Status ELSE resp.Status,
     MediaType |-> IF resp.MediaType = "" THEN other.MediaType ELSE resp.MediaType,
     Headers |-> resp.Headers \o other.Headers]

\* ResponseDefinition.Merge: the other definition fills the fields left unset
Merge(resp, other) ==
    [Status |-> IF resp.Status = 0 THEN other.Status ELSE resp.Status,
     MediaType |-> IF resp.MediaType = "" THEN other.MediaType ELSE resp.MediaType,
     Headers |-> IF resp.Headers = <<>> THEN other.Headers ELSE resp.Headers]

MergeIf(resp, m, name) == IF name \in DOMAIN m THEN Merge(resp, m[name]) ELSE resp

\* the merges of finalizeResource in the reverse order
MergeResponse_BuiltInFirst(r, resp, name) ==
    MergeIf(MergeIf(MergeIf(resp, DefaultResponses, name), APIResponses, name), r.Responses, name)

\* finalizeResource, 1: the merge of one response of an action
MergeResponse(r, resp, name) ==
    MergeIf(MergeIf(MergeIf(resp, r.Responses, name), APIResponses, name), DefaultResponses, name)

\* the implicit parameters set without looking for a declared one
RECURSIVE ImplicitParams_NoFoundTest(_, _)
ImplicitParams_NoFoundTest(params, wcs) ==
    IF wcs = <<>> THEN params
    ELSE LET o == IF params # <<>> THEN params[1] ELSE Obj(<<>>, <<>>)
         IN  ImplicitParams_NoFoundTest(
                 <<[o EXCEPT !.Members = Put(@, wcs[1], Prim("String"))]>>, Tail(wcs))

\* finalizeResource, 2: the params with an implicit String parameter for every
\* wildcard of wcs that has none
RECURSIVE ImplicitParams(_, _)
ImplicitParams(params, wcs) ==
    IF wcs = <<>> THEN params
    ELSE LET o == IF params # <<>> THEN params[1] ELSE Obj(<<>>, <<>>)
             o2 == IF wcs[1] \in DOMAIN o.Members THEN o
                   ELSE [o EXCEPT !.Members = Put(@, wcs[1], Prim("String"))]
         IN  ImplicitParams(<<o2>>, Tail(wcs))

RECURSIVE AllWildcards(_)
AllWildcards(routes) ==
    IF routes = <<>> THEN <<>>
    ELSE ExtractWildcards(FullPath(routes[1])) \o AllWildcards(Tail(routes))

finalizeAction(r, a) ==
    [a EXCEPT !.Responses = [n \in DOMAIN a.Responses |-> MergeResponse(r, a.Responses[n], n)],
              !.Params = ImplicitParams(a.Params, AllWildcards(a.Routes))]

\* finalizeResource
finalizeResource(r) ==
    [r EXCEPT !.Actions = [n \in DOMAIN r.Actions |-> finalizeAction(r, r.Actions[n])]]

\* AttributeDefinition.Inherit on the members of an object: the members of the
\* parent the child does not have are added to the child
InheritMembers(child, parent) ==
    [n \in DOMAIN child \cup DOMAIN parent |-> IF n \in DOMAIN child THEN child[n] ELSE parent[n]]

\* AttributeDefinition.Inherit
Inherit(child, parent) ==
    IF child.Kind = "Object" /\ parent.Kind = "Object"
    THEN [child EXCEPT !.Members = InheritMembers(child.Members, parent.Members)]
    ELSE child

\* finalizeType: bat is the AttributeDefinition of the type itself
finalizeType(ut) ==
    IF ut.BaseType # <<>> THEN [ut EXCEPT !.Att = Inherit(ut.Att, ut.Att)] ELSE ut

\* finalizeMediaType: bat is the AttributeDefinition of the media type itself
finalizeMediaType(mt) ==
    IF mt.BaseType # <<>> THEN [mt EXCEPT !.Atts = InheritMembers(mt.Atts, mt.Atts)] ELSE mt

\* the second pass of RunDSL over the resources
FinalizePass(resources) == [n \in DOMAIN resources |-> finalizeResource(resources[n])]

\* the second pass of RunDSL over the user types and over the media types
FinalizeTypes(types) == [n \in DOMAIN types |-> finalizeType(types[n])]
FinalizeMediaTypes(mts) == [n \in DOMAIN mts |-> finalizeMediaType(mts[n])]

\* the design tree with its user types
FullTree(resources, mts, types) == [R |-> resources, M |-> mts, T |-> types]

----------------------------------------------------------------------------
(* RunDSL *)

\* the history of one run of RunDSL: whether the caller left errors in Errors, the
\* starts and ends of the top-level bodies in order, the errors raised, the
\* outcome of Design.Validate, the tree Validate left, whether Finalize ran
NewRun(n, left) ==
    [n |-> n, left |-> left, log |-> <<>>, raised |-> <<>>, validated |-> FALSE,
     verr |-> NoErr, atValidate |-> <<>>, finalized |-> FALSE, lastExec |-> <<>>,
     preFinal |-> <<>>]

Phases == <<"api", "types", "mediatypes", "resources">>
PhaseSet == {"api", "types", "mediatypes", "resources"}

\* the bodies RunDSL executes in a phase
PhaseDefs(p) ==
    CASE p = "api" -> {Ctx("api", "Design")}
      [] p = "types" -> {Ctx("type", t) : t \in DOMAIN Types}
      [] p = "mediatypes" -> {Ctx("mediatype", m) : m \in DOMAIN MediaTypes}
      [] p = "resources" -> {Ctx("resource", r) : r \in DOMAIN Resources}

\* the DSL of the definition is not nil
HasDSL(d) == d.kind # "api" \/ apiDSL

\* RunDSL running the resources before the types and the media types
NextPhase_ResourcesFirst(p) ==
    CASE p = "api" -> "resources"
      [] p = "resources" -> "types"
      [] p = "types" -> "mediatypes"
      [] p = "mediatypes" -> "validate"

\* where RunDSL goes after a phase
NextPhase(p) ==
    CASE p = "api" -> "types"
      [] p = "types" -> "mediatypes"
      [] p = "mediatypes" -> "resources"
      [] p = "resources" -> "validate"

Executed == {run.log[i][2] : i \in 1..Len(run.log)}

\* RunDSL keeping the errors it finds
ResetErrors_Keep(errors) == errors

\* Errors = nil at the start of RunDSL
ResetErrors(errors) == <<>>

\* RunDSL with no design: returns nil at once
RunDSLNoDesign ==
    /\ pc \in {"idle", "done"}
    /\ Design = "nil"
    /\ pc' = "done"
    /\ ret' = Returned("nil", <<>>)
    /\ run' = NewRun(1, Errors # <<>>)
    /\ UNCHANGED <<treeVars, Errors, ctxStack, frames, vlog>>

\* RunDSL is called
RunDSLStart ==
    /\ pc \in {"idle", "done"}
    /\ Design = "set"
    /\ Errors' = ResetErrors(Errors)
    /\ pc' = "api"
    /\ ret' = Returned("none", <<>>)
    /\ run' = NewRun(1, Errors # <<>>)
    /\ UNCHANGED <<treeVars, ctxStack, frames, vlog>>

\* RunDSL calls executeDSL on a definition of the current phase
ExecuteTop(d) ==
    /\ pc \in PhaseSet
    /\ frames = <<>>
    /\ d \in PhaseDefs(pc) \ Executed
    /\ IF HasDSL(d)
       THEN /\ ctxStack' = ExecuteDSLPush(ctxStack, d)
            /\ frames' = <<Frame(d, Len(Errors), <<>>, ctxStack)>>
            /\ run' = [run EXCEPT !.log = Append(@, <<"start", d>>)]
       ELSE /\ run' = [run EXCEPT !.log = Append(@, <<"nil", d>>)]
            /\ UNCHANGED <<ctxStack, frames>>
    /\ UNCHANGED <<treeVars, Errors, pc, ret, vlog>>

\* the loop of the phase is over
EndPhase ==
    /\ pc \in PhaseSet
    /\ frames = <<>>
    /\ PhaseDefs(pc) \subseteq Executed
    /\ pc' = NextPhase(pc)
    /\ UNCHANGED <<treeVars, Errors, ctxStack, frames, ret, run, vlog>>

\* a builder can be called: by the running body, or outside RunDSL at top level
CanCall ==
    IF frames = <<>> THEN pc \in {"idle", "done"} ELSE Top.ops < MaxOps

Called(fs) == IF fs = <<>> THEN fs ELSE [fs EXCEPT ![Len(fs)].ops = @ + 1]

\* the history of the errors raised during the run: the builder and the body
\* that called it
Raise(dslFunc) ==
    IF pc \in {"idle", "done"} THEN run
    ELSE [run EXCEPT !.raised = Append(@, [func |-> dslFunc, ctx |-> Top.ctx])]

\* Routing(route)
Routing(rt) ==
    /\ CanCall
    /\ IF actionDefinition(ctxStack)
       THEN /\ frames' = [Called(frames) EXCEPT ![Len(frames)].def[1].Routes = Append(@, rt)]
            /\ UNCHANGED <<Errors, run>>
       ELSE /\ Len(Errors) < MaxErrors
            /\ Errors' = incompatibleDSL(Errors, ctxStack, "Routing")
            /\ run' = Raise("Routing")
            /\ frames' = Called(frames)
    /\ UNCHANGED <<treeVars, ctxStack, pc, ret, vlog>>

\* Action(name, dsl)
Action(name, dsl) ==
    /\ CanCall
    /\ IF resourceDefinition(ctxStack)
       THEN IF dsl
            THEN /\ ctxStack' = ExecuteDSLPush(ctxStack, Ctx("action", name))
                 /\ frames' = Append(Called(frames),
                                     Frame(Ctx("action", name), Len(Errors),
                                           <<NewAction(name)>>, ctxStack))
                 /\ UNCHANGED <<Resources, Errors, run>>
            ELSE /\ Resources' = [Resources EXCEPT ![Top.ctx.name].Actions =
                                      Put(@, name, NewAction(name))]
                 /\ frames' = Called(frames)
                 /\ UNCHANGED <<ctxStack, Errors, run>>
       ELSE /\ Len(Errors) < MaxErrors
            /\ Errors' = incompatibleDSL(Errors, ctxStack, "Action")
            /\ run' = Raise("Action")
            /\ frames' = Called(frames)
            /\ UNCHANGED <<ctxStack, Resources>>
    /\ UNCHANGED <<Design, apiDSL, Types, MediaTypes, pc, ret, vlog>>

\* the running body returns: executeDSL pops the context and returns; Action
\* then adds its action to the resource when the body recorded no error
Return ==
    /\ frames # <<>>
    /\ ctxStack' = ExecuteDSLPop(ctxStack)
    /\ frames' = SubSeq(frames, 1, Len(frames) - 1)
    /\ IF Top.ctx.kind = "action" /\ ExecuteDSLResult(Errors, Top.initCount)
       THEN Resources' = [Resources EXCEPT ![frames[Len(frames) - 1].ctx.name].Actions =
                              Put(@, Top.ctx.name, Top.def[1])]
       ELSE UNCHANGED Resources
    /\ run' = [run EXCEPT !.log = IF Len(frames) = 1 THEN Append(@, <<"end", Top.ctx>>) ELSE @,
                          !.lastExec = <<Top.saved, ExecuteDSLPop(ctxStack)>>]
    /\ UNCHANGED <<Design, apiDSL, Types, MediaTypes, Errors, pc, ret, vlog>>

\* RunDSL finalizing whatever Errors holds
AfterValidate_IgnoreErrors(err, errors) ==
    IF IsErr(err) THEN "validate error" ELSE "finalize"

\* where RunDSL goes after Design.Validate returned err: it returns the error,
\* or Errors when it holds any, or runs the second pass
AfterValidate(err, errors) ==
    IF IsErr(err) THEN "validate error"
    ELSE IF errors # <<>> THEN "Errors"
    ELSE "finalize"

\* RunDSL calls Design.Validate
Validate ==
    /\ pc = "validate"
    /\ \E o \in APIDefinitionValidate(Resources, MediaTypes) :
          /\ MediaTypes' = o.mts
          /\ run' = [run EXCEPT !.validated = TRUE, !.verr = o.err,
                                !.atValidate = <<Tree(Resources, o.mts)>>]
          /\ LET to == AfterValidate(o.err, Errors) IN
             IF to = "finalize"
             THEN pc' = "finalize" /\ UNCHANGED ret
             ELSE /\ pc' = "done"
                  /\ ret' = Returned(to, IF to = "Errors" THEN Errors ELSE o.err)
    /\ UNCHANGED <<Design, apiDSL, Types, Resources, Errors, ctxStack, frames, vlog>>

\* the second pass of RunDSL, and its return of nil
Finalize ==
    /\ pc = "finalize"
    /\ Types' = FinalizeTypes(Types)
    /\ MediaTypes' = FinalizeMediaTypes(MediaTypes)
    /\ Resources' = FinalizePass(Resources)
    /\ run' = [run EXCEPT !.finalized = TRUE,
                          !.preFinal = <<FullTree(Resources, MediaTypes, Types)>>]
    /\ pc' = "done"
    /\ ret' = Returned("nil", <<>>)
    /\ UNCHANGED <<Design, apiDSL, Errors, ctxStack, frames, vlog>>

RouteChoices == {Route("GET", <<Wc("id")>>)}
ActionNames == {"a1"}

Init ==
    /\ \/ /\ Design = "nil"
          /\ apiDSL = FALSE
          /\ Types = <<>>
          /\ Resources = <<>>
          /\ MediaTypes = <<>>
       \/ /\ Design = "set"
          /\ apiDSL \in BOOLEAN
          /\ Types = [n \in {"t1"} |-> UserType("T1", Obj(<<>>, <<>>))]
          /\ Resources = [n \in {"r1"} |-> NewResource(n)]
          /\ MediaTypes = [n \in {"m1"} |->
                              MediaType("M1", "application/json", "Object", <<>>, {"default"})]
       \/ /\ Design = "set"
          /\ apiDSL = FALSE
          /\ Types = <<>>
          /\ Resources = [n \in {"r1", "r2"} |-> NewResource(n)]
          /\ MediaTypes = <<>>
    /\ Errors = <<>>
    /\ ctxStack = <<>>
    /\ frames = <<>>
    /\ pc = "idle"
    /\ ret = Returned("none", <<>>)
    /\ run = NewRun(0, FALSE)
    /\ vlog = <<>>

Next ==
    \/ RunDSLNoDesign
    \/ RunDSLStart
    \/ \E p \in PhaseSet : \E d \in PhaseDefs(p) : ExecuteTop(d)
    \/ EndPhase
    \/ \E rt \in RouteChoices : Routing(rt)
    \/ \E name \in ActionNames : \E dsl \in BOOLEAN : Action(name, dsl)
    \/ Return
    \/ Validate
    \/ Finalize

Spec == Init /\ [][Next]_vars

----------------------------------------------------------------------------
(* The design trees of SpecValidate: definitions built directly, as the    *)
(* tests build them, one resource "r1" with an action "a1" drawn from the  *)
(* sets below, a media type "m1", and optionally a second action and a     *)
(* second resource.                                                        *)

GetID == Route("GET", <<Wc("id")>>)

ParamsChoices ==
    { <<>>,
      <<Obj([n \in {"id"} |-> Prim("Integer")], <<>>)>>,
      \* Required names a member the params object does not have
      <<Obj([n \in {"id"} |-> Prim("Integer")], << <<"missing">> >>)>>,
      \* the object elements of an array parameter require an absent member
      <<Obj([n \in {"ids"} |-> Arr(Obj([k \in {"x"} |-> Prim("String")], << <<"nope">> >>))], <<>>)>>,
      \* a Required validation on a parameter that is no object
      <<Obj([n \in {"id"} |-> Att("String", <<>>, <<>>, << <<"id">> >>)], <<>>)>>,
      \* an object parameter
      <<Obj([n \in {"o"} |-> Obj([k \in {"x"} |-> Prim("String")], <<>>)], <<>>)>>,
      \* two parameters, each one invalid
      <<Obj([n \in {"o", "s"} |->
              IF n = "o" THEN Obj(<<>>, <<>>) ELSE Att("String", <<>>, <<>>, << <<"s">> >>)], <<>>)>> }

PayloadChoices ==
    { <<>>,
      <<UserType("Pay", Obj([n \in {"name"} |-> Prim("String")], << <<"name">> >>))>>,
      \* Required names a member the payload object does not have
      <<UserType("Pay", Obj([n \in {"name"} |-> Prim("String")], << <<"absent">> >>))>>,
      \* a nested object of the payload requires an absent member
      <<UserType("Pay", Obj([n \in {"in"} |-> Obj([k \in {"x"} |-> Prim("String")], << <<"y">> >>)], <<>>))>>,
      <<UserType("", Obj([n \in {"name"} |-> Prim("String")], <<>>))>> }

ResponsesChoices ==
    { <<>>,
      [n \in {"OK"} |-> Response(200, "")],
      [n \in {"OK"} |-> Response(200, "m1")],
      [n \in {"Zero"} |-> Response(0, "")],
      [n \in {"OK", "NotFound"} |-> IF n = "OK" THEN Response(200, "m1") ELSE Response(404, "")],
      [n \in {"OK", "Dup"} |-> Response(200, "")],
      [n \in {"OK", "Dup"} |-> Response(200, "m1")],
      [n \in {"OK", "Dup", "Zero"} |-> IF n = "Zero" THEN Response(0, "") ELSE Response(200, "")],
      [n \in {"OK", "Dup", "Other"} |-> IF n = "Other" THEN Response(404, "m1") ELSE Response(200, "")] }

ActionChoices ==
    { [Name |-> nm, Routes |-> rts, Responses |-> rs, Params |-> ps, Payload |-> pl] :
        nm \in {"a1", ""}, rts \in {<<>>, <<GetID>>}, rs \in ResponsesChoices,
        ps \in ParamsChoices, pl \in PayloadChoices }

OkAction(name) == [NewAction(name) EXCEPT !.Routes = <<GetID>>]

MediaTypeChoices ==
    { MediaType("M1", "application/json", "Object", <<>>, {"default"}),
      \* no identifier and no type: Validate fills in both
      MediaType("M1", "", "Nil", <<>>, {}),
      MediaType("M1", "application/json", "Nil", <<>>, {}),
      \* an attribute rendered with a view its media type does not have
      MediaType("M1", "", "Object",
                [n \in {"self"} |-> [View |-> "tiny", MT |-> "m1"]], {"default"}),
      \* a link to the attribute "owner" with a view its media type does not have
      [MediaType("M1", "application/json", "Object",
                 [n \in {"owner"} |-> [View |-> "", MT |-> "m1"]], {"default"})
          EXCEPT !.Links = [n \in {"owner"} |-> Link("owner", "missing")]],
      MediaType("M1", "not a mime type", "Object", <<>>, {"default"}),
      MediaType("", "application/json", "Object", <<>>, {"default"}) }

\* the second action of "r1"
SecondActionChoices == { <<>>, <<OkAction("a2")>>, <<NewAction("a2")>> }

\* the second resource
SecondResourceChoices ==
    { <<>>,
      <<[NewResource("r2") EXCEPT !.Actions = [n \in {"b1"} |-> OkAction("b1")]]>>,
      <<[NewResource("r2") EXCEPT !.Actions = [n \in {"b1"} |-> NewAction("b1")]]>>,
      <<[NewResource("r2") EXCEPT !.ParentName = "r1", !.MediaType = "m1"]>>,
      <<[NewResource("r2") EXCEPT !.ParentName = "gone"]>> }

Actions2(a1, a2) ==
    IF a2 = <<>> THEN [n \in {"a1"} |-> a1]
    ELSE [n \in {"a1", "a2"} |-> IF n = "a1" THEN a1 ELSE a2[1]]

Resources2(r1, r2) ==
    IF r2 = <<>> THEN [n \in {"r1"} |-> r1]
    ELSE [n \in {"r1", "r2"} |-> IF n = "r1" THEN r1 ELSE r2[1]]

\* the trees that vary the action "a1" and the media type
ActionTrees ==
    { [R |-> Resources2([NewResource("r1") EXCEPT !.Actions = Actions2(a1, <<>>)], <<>>),
       M |-> [n \in {"m1"} |-> m]] : a1 \in ActionChoices, m \in MediaTypeChoices }

\* the trees that vary the resources around a valid or route-less "a1"
ResourceTrees ==
    { [R |-> Resources2([Name |-> "r1", ParentName |-> pn, CanonicalAction |-> ca,
                         MediaType |-> mt, Responses |-> <<>>,
                         Actions |-> Actions2(a1, a2)], r2),
       M |-> [n \in {"m1"} |-> m]] :
        pn \in {"", "r2"}, ca \in {"", "a1", "show"}, mt \in {"", "m1"},
        a1 \in {OkAction("a1"), NewAction("a1")}, a2 \in SecondActionChoices,
        r2 \in SecondResourceChoices, m \in MediaTypeChoices }

InitTrees == ActionTrees \cup ResourceTrees

----------------------------------------------------------------------------
(* SpecValidate: Validate called directly on a tree *)

InitValidate ==
    /\ \E t \in InitTrees : Resources = t.R /\ MediaTypes = t.M
    /\ Design = "set"
    /\ apiDSL = FALSE
    /\ Types = <<>>
    /\ Errors = <<>>
    /\ ctxStack = <<>>
    /\ frames = <<>>
    /\ pc = "idle"
    /\ ret = Returned("none", <<>>)
    /\ run = <<>>
    /\ vlog = <<>>

Call(op, res, act, err, pre, post) ==
    [op |-> op, res |-> res, act |-> act, err |-> err, pre |-> pre, post |-> post]

\* a call of Design.Validate()
CallDesignValidate ==
    /\ Len(vlog) < MaxCalls
    /\ \E o \in APIDefinitionValidate(Resources, MediaTypes) :
          /\ MediaTypes' = o.mts
          /\ vlog' = Append(vlog, Call("Design", "", "", o.err, Tree(Resources, MediaTypes),
                                       Tree(Resources, o.mts)))
    /\ UNCHANGED <<Design, apiDSL, Types, Resources, engineVars>>

\* a call of Validate() on the action a of the resource r
CallActionValidate(r, a) ==
    /\ Len(vlog) < MaxCalls
    /\ \E o \in ActionDefinitionValidate(Resources[r].Actions[a], MediaTypes) :
          /\ MediaTypes' = o.mts
          /\ vlog' = Append(vlog, Call("Action", r, a, o.err, Tree(Resources, MediaTypes),
                                       Tree(Resources, o.mts)))
    /\ UNCHANGED <<Design, apiDSL, Types, Resources, engineVars>>

\* a call of Validate() on the media type m
CallMediaTypeValidate(m) ==
    /\ Len(vlog) < MaxCalls
    /\ \E o \in MediaTypeDefinitionValidate(m, MediaTypes) :
          /\ MediaTypes' = o.mts
          /\ vlog' = Append(vlog, Call("MediaType", m, "", o.err, Tree(Resources, MediaTypes),
                                       Tree(Resources, o.mts)))
    /\ UNCHANGED <<Design, apiDSL, Types, Resources, engineVars>>

NextValidate ==
    \/ CallDesignValidate
    \/ \E m \in DOMAIN MediaTypes : CallMediaTypeValidate(m)
    \/ \E r \in DOMAIN Resources : \E a \in DOMAIN Resources[r].Actions : CallActionValidate(r, a)

SpecValidate == InitValidate /\ [][NextValidate]_vars

----------------------------------------------------------------------------
(* SpecFinalize: the end of RunDSL (Validate, then the second pass) on a   *)
(* tree the bodies built without error, and the second pass run again on   *)
(* the finalized tree.                                                     *)

AccountBottle == Route("GET", <<Seg("accounts"), Wc("accountID"), Seg("bottles"), Wc("id")>>)

FinalizeRoutesChoices == { <<>>, <<GetID>>, <<AccountBottle>>, <<GetID, AccountBottle>> }

FinalizeParamsChoices ==
    { <<>>,
      <<Obj([n \in {"id"} |-> Prim("Integer")], <<>>)>>,
      <<Obj([n \in {"id", "page"} |-> Prim("Integer")], << <<"id">> >>)>> }

FinalizeResponsesChoices ==
    { <<>>,
      [n \in {"OK"} |-> Response(200, "")],
      [n \in {"OK"} |-> Response(200, "m1")],
      [n \in {"NotFound"} |-> Response(404, "")],
      [n \in {"Created"} |-> Response(201, "")],
      [n \in {"Created"} |-> WithHeaders(Response(201, ""), <<"ETag">>)],
      [n \in {"Custom"} |-> Response(200, "")],
      [n \in {"OK", "NotFound"} |-> IF n = "OK" THEN Response(200, "") ELSE Response(404, "m1")],
      \* invalid: a status used twice, a status left unset
      [n \in {"OK", "Dup"} |-> Response(200, "")],
      [n \in {"OK"} |-> Response(0, "")] }

\* the responses declared on the resource
ResourceResponsesChoices ==
    { <<>>,
      [n \in {"OK"} |-> Response(200, "mres")],
      [n \in {"OK"} |-> Response(201, "")],
      [n \in {"NotFound", "Created"} |->
          IF n = "NotFound" THEN Response(404, "mres")
          ELSE WithHeaders(Response(201, "mres"), <<"Link">>)] }

\* a type derived from a base type
Derived(t, base) == [t EXCEPT !.BaseType = <<base>>]

BaseAtt == Obj([n \in {"id", "name"} |-> Prim("Integer")], <<>>)

FinalizeTypesChoices ==
    { <<>>,
      [n \in {"t1"} |-> UserType("T1", Obj([k \in {"name"} |-> Prim("String")], <<>>))],
      [n \in {"t1"} |-> Derived(UserType("T1", Obj([k \in {"name"} |-> Prim("String")], <<>>)),
                                BaseAtt)] }

MemberAtt == [View |-> "", MT |-> ""]

FinalizeMediaTypesChoices ==
    { MediaType("M1", "application/json", "Object", <<>>, {"default"}),
      MediaType("M1", "application/json", "Object", [n \in {"href"} |-> MemberAtt], {"default"}),
      [MediaType("M1", "application/json", "Object", [n \in {"href"} |-> MemberAtt], {"default"})
          EXCEPT !.BaseType = <<[n \in {"href", "id"} |-> MemberAtt]>>] }

FinalizeTrees ==
    { FullTree([n \in {"r1"} |->
                   [NewResource("r1") EXCEPT
                       !.Responses = rr,
                       !.Actions = [k \in {"a1"} |->
                           [NewAction("a1") EXCEPT !.Routes = rts, !.Params = ps,
                                                   !.Responses = rs]]]],
               [n \in {"m1"} |-> m], ts) :
        rr \in ResourceResponsesChoices, rts \in FinalizeRoutesChoices,
        ps \in FinalizeParamsChoices, rs \in FinalizeResponsesChoices,
        m \in FinalizeMediaTypesChoices, ts \in FinalizeTypesChoices }

\* the bodies of RunDSL have run and recorded no error
InitFinalize ==
    /\ \E t \in FinalizeTrees : Resources = t.R /\ MediaTypes = t.M /\ Types = t.T
    /\ Design = "set"
    /\ apiDSL = FALSE
    /\ Errors = <<>>
    /\ ctxStack = <<>>
    /\ frames = <<>>
    /\ pc = "validate"
    /\ ret = Returned("none", <<>>)
    /\ run = NewRun(1, FALSE)
    /\ vlog = <<>>

\* the second pass applied to the tree RunDSL finalized
FinalizeAgain ==
    /\ pc = "done"
    /\ run.finalized
    /\ run.n < MaxCalls
    /\ Types' = FinalizeTypes(Types)
    /\ MediaTypes' = FinalizeMediaTypes(MediaTypes)
    /\ Resources' = FinalizePass(Resources)
    /\ run' = [run EXCEPT !.n = @ + 1,
                          !.preFinal = <<FullTree(Resources, MediaTypes, Types)>>]
    /\ UNCHANGED <<Design, apiDSL, Errors, ctxStack, frames, pc, ret, vlog>>

NextFinalize ==
    \/ Validate
    \/ Finalize
    \/ FinalizeAgain

SpecFinalize == InitFinalize /\ [][NextFinalize]_vars

----------------------------------------------------------------------------
(* The type library: Primitive.Load.  A Go value is its dynamic type and   *)
(* its value written as a literal, so that 0 of type int and 0 of type     *)
(* uint8 are two values, as they are for Go's interface comparison.        *)

Value(t, v) == [t |-> t, v |-> v]
Nil == Value("nil", "")

IntTypes == {"int", "uint", "int8", "uint8", "int16", "uint16", "int32", "uint32",
             "int64", "uint64"}
FloatTypes == {"float32", "float64"}

PrimitiveKinds == {"Null", "Boolean", "Integer", "Number", "String"}

\* Primitive.Name
PrimitiveName(b) ==
    CASE b = "Null" -> "null"
      [] b = "Boolean" -> "boolean"
      [] b = "Integer" -> "integer"
      [] b = "Number" -> "number"
      [] b = "String" -> "string"

\* strconv.ParseBool: the strings it accepts and their values
ParseBoolTrue == {"1", "t", "T", "TRUE", "true", "True"}
ParseBoolFalse == {"0", "f", "F", "FALSE", "false", "False"}

\* strconv.ParseInt(v, 10, 0) on the strings of the model: the literal of the
\* result, <<>> for an error
ParseInt(v) ==
    CASE v \in {"0", "1", "2", "12", "-3"} -> <<v>>
      [] v = "+5" -> <<"5">>
      [] v = "007" -> <<"7">>
      [] OTHER -> <<>>

\* strconv.ParseFloat(v, 64) on the strings of the model
ParseFloat(v) ==
    CASE v \in {"0", "1", "2", "12", "-3", "1.5"} -> <<v>>
      [] v = "+5" -> <<"5">>
      [] v = "007" -> <<"7">>
      [] v = "1e2" -> <<"100">>
      [] OTHER -> <<>>

MaxUint64 == "18446744073709551615"

\* the conversion int(v) of an integer of type t (int is 64 bits wide)
ToInt(t, v) == IF t \in {"uint", "uint64"} /\ v = MaxUint64 THEN "-1" ELSE v

\* the conversion float64(v) of an integer or a float of type t
ToFloat64(t, v) == IF v = MaxUint64 THEN "18446744073709551616" ELSE v

\* the result of Load: the value returned (<<>> for nil) and the error
Loaded(val) == [val |-> <<val>>, err |-> NoErr]
IncompatibleValue(b, extra) ==
    [val |-> <<>>, err |-> <<"IncompatibleValue", PrimitiveName(b), extra>>]

\* Primitive.Load
PrimitiveLoad(b, value) ==
    IF value = Nil THEN [val |-> <<>>, err |-> NoErr]
    ELSE IF b = "Boolean" THEN
        IF value.t = "bool" THEN Loaded(value)
        ELSE IF value.t = "string" THEN
            IF value.v \in ParseBoolTrue THEN Loaded(Value("bool", "true"))
            ELSE IF value.v \in ParseBoolFalse THEN Loaded(Value("bool", "false"))
            ELSE IncompatibleValue(b, "invalid syntax")
        ELSE IF value.t \in IntTypes THEN
            \* value == 0 compares the interface value with int(0)
            IF value = Value("int", "0") THEN Loaded(Value("bool", "false"))
            ELSE IF value = Value("int", "1") THEN Loaded(Value("bool", "true"))
            ELSE IncompatibleValue(b, "integer value must be 0 or 1")
        ELSE IncompatibleValue(b, "")
    ELSE IF b = "Integer" THEN
        IF value.t \in IntTypes THEN Loaded(Value("int", ToInt(value.t, value.v)))
        ELSE IF value.t = "string" THEN
            IF ParseInt(value.v) # <<>> THEN Loaded(Value("int", ParseInt(value.v)[1]))
            ELSE IncompatibleValue(b, "invalid syntax")
        ELSE IncompatibleValue(b, "")
    ELSE IF b = "Number" THEN
        IF value.t \in IntTypes \cup FloatTypes
        THEN Loaded(Value("float64", ToFloat64(value.t, value.v)))
        ELSE IF value.t = "string" THEN
            IF ParseFloat(value.v) # <<>> THEN Loaded(Value("float64", ParseFloat(value.v)[1]))
            ELSE IncompatibleValue(b, "invalid syntax")
        ELSE IncompatibleValue(b, "")
    ELSE IF b = "String" THEN
        IF value.t = "time.Time" THEN Loaded(Value("string", value.v))
        ELSE IF value.t = "string" THEN Loaded(value)
        ELSE IncompatibleValue(b, "")
    ELSE IncompatibleValue(b, "")

\* the raw value of a loaded value: the booleans, integers, floats and
\* strings are raw values already
PrimitiveDump(x) ==
    CASE x.t = "bool" -> Value("bool", x.v)
      [] x.t = "int" -> Value("int", x.v)
      [] x.t = "float64" -> Value("float64", x.v)
      [] x.t = "string" -> Value("string", x.v)

\* the well-formed literals of a kind, among the strings of the model
Literals(b) ==
    CASE b = "Null" -> {"null"}
      [] b = "Boolean" -> {"true", "false"}
      [] b = "Integer" -> {"0", "1", "2", "12", "-3"}
      [] b = "Number" -> {"0", "1", "2", "12", "-3", "1.5", "1e2"}
      [] b = "String" -> {"abc", "yes", "", "12", "true", "null"}

\* the values Load is called on
LoadValues ==
    {Nil}
    \cup {Value("bool", v) : v \in {"true", "false"}}
    \cup {Value("string", v) : v \in ParseBoolTrue \cup ParseBoolFalse \cup
                                     {"2", "12", "-3", "+5", "007", "1.5", "1e2", "yes", "abc", "",
                                      "null"}}
    \cup {Value(t, v) : t \in IntTypes, v \in {"0", "1", "2"}}
    \cup {Value(t, "-1") : t \in {"int", "int8", "int16", "int32", "int64"}}
    \cup {Value(t, MaxUint64) : t \in {"uint", "uint64"}}
    \cup {Value(t, v) : t \in FloatTypes, v \in {"0", "1", "1.5"}}
    \cup {Value("time.Time", "2015-10-26T08:31:23Z")}
    \cup {Value("[]interface {}", "[]"), Value("map[string]interface {}", "map[]")}

----------------------------------------------------------------------------
(* SpecLoad: one call of Primitive.Load *)

InitLoad ==
    /\ Design = "nil"
    /\ apiDSL = FALSE
    /\ Types = <<>>
    /\ Resources = <<>>
    /\ MediaTypes = <<>>
    /\ Errors = <<>>
    /\ ctxStack = <<>>
    /\ frames = <<>>
    /\ pc = "idle"
    /\ ret = Returned("none", <<>>)
    /\ \E b \in PrimitiveKinds : \E value \in LoadValues : run = [kind |-> b, value |-> value]
    /\ vlog = <<>>

\* the call b.Load(value)
CallPrimitiveLoad ==
    /\ vlog = <<>>
    /\ LET res == PrimitiveLoad(run.kind, run.value)
       IN  vlog' = <<[op |-> "Load", kind |-> run.kind, value |-> run.value,
                      val |-> res.val, err |-> res.err]>>
    /\ UNCHANGED <<treeVars, engineVars>>

NextLoad == CallPrimitiveLoad

SpecLoad == InitLoad /\ [][NextLoad]_vars

----------------------------------------------------------------------------
(* The type library: Object.Load.  A nil interface value is Nil. *)

\* a member of an object; DefaultValue is <<>> when nil
Member(type, validations, default) ==
    [Type |-> type, Validations |-> validations, DefaultValue |-> default]

\* the validation functions of the model: validateRequired and validateEnum
Required == [v |-> "Required", valid |-> {}]
Enum(valid) == [v |-> "Enum", valid |-> valid]

\* the call validation(name, val)
Validate1(validation, name, val) ==
    IF validation.v = "Required"
    THEN IF val = Nil THEN <<"Property is required", name>> ELSE NoErr
    ELSE IF val \in validation.valid THEN NoErr ELSE <<"invalid value", name>>

\* the value of a result of Load as an interface value
ValOf(res) == IF res.val = <<>> THEN Nil ELSE res.val[1]

\* Member.Load: the first error of the validations, in order
RECURSIVE FirstValidationErr(_, _, _, _)
FirstValidationErr(validations, name, val, i) ==
    IF i > Len(validations) THEN NoErr
    ELSE IF IsErr(Validate1(validations[i], name, val))
         THEN Validate1(validations[i], name, val)
         ELSE FirstValidationErr(validations, name, val, i + 1)

MemberLoad(member, name, value) ==
    LET res == PrimitiveLoad(member.Type, value)
    IN  IF IsErr(res.err) THEN [val |-> <<>>, err |-> res.err]
        ELSE IF IsErr(FirstValidationErr(member.Validations, name, ValOf(res), 1))
             THEN [val |-> <<>>,
                   err |-> FirstValidationErr(member.Validations, name, ValOf(res), 1)]
             ELSE res

\* the errors the validations loop of Object.Load appends
RECURSIVE ValidationErrs(_, _, _, _)
ValidationErrs(validations, name, val, i) ==
    IF i > Len(validations) THEN <<>>
    ELSE (IF IsErr(Validate1(validations[i], name, val))
          THEN <<Validate1(validations[i], name, val)>> ELSE <<>>)
         \o ValidationErrs(validations, name, val, i + 1)

\* the end of Object.Load
ObjectLoadReturn_IgnoreErrors(coerced, errors) == [val |-> <<coerced>>, err |-> NoErr]
ObjectLoadReturn(coerced, errors) ==
    IF Len(errors) > 0 THEN [val |-> <<>>, err |-> errors[1]]
    ELSE [val |-> <<coerced>>, err |-> NoErr]

\* the loop of Object.Load over the members, ranged over in the given order
RECURSIVE ObjectLoadLoop(_, _, _, _, _, _)
ObjectLoadLoop(o, m, order, i, coerced, errors) ==
    IF i > Len(order) THEN ObjectLoadReturn(coerced, errors)
    ELSE
        LET n == order[i]
            member == o[n]
            val == IF n \in DOMAIN m THEN m[n] ELSE Nil
        IN  IF val = Nil
            THEN ObjectLoadLoop(o, m, order, i + 1,
                     Put(coerced, n, IF member.DefaultValue # <<>>
                                     THEN member.DefaultValue[1] ELSE Nil),
                     errors)
            ELSE
                LET res == MemberLoad(member, n, val)
                IN  IF IsErr(res.err)
                    THEN ObjectLoadLoop(o, m, order, i + 1, coerced,
                             Append(errors, <<"IncompatibleValue", "Object",
                                              "could not load member", n>>))
                    ELSE ObjectLoadLoop(o, m, order, i + 1, Put(coerced, n, ValOf(res)),
                             errors \o ValidationErrs(member.Validations, n, ValOf(res), 1))

\* Object.Load on a map[string]interface{}
ObjectLoad(o, m, order) == ObjectLoadLoop(o, m, order, 1, <<>>, <<>>)

\* the orders a range over the map s may take
OrdersOf(s) ==
    {order \in [1..Cardinality(DOMAIN s) -> DOMAIN s] :
        \A i, j \in DOMAIN order : i # j => order[i] # order[j]}

\* the members, the objects and the input maps of the model
MemberChoices ==
    [id |-> {Member("Integer", <<>>, <<>>),
             Member("Integer", <<Required, Enum({Value("int", "1"), Value("int", "2")})>>, <<>>),
             Member("Integer", <<>>, <<Value("int", "7")>>)},
     name |-> {Member("String", <<>>, <<>>),
               Member("String", <<Enum({Value("string", "abc")})>>, <<Value("string", "x")>>)}]

ObjectChoices ==
    {<<>>}
    \cup {[n \in {"id"} |-> a] : a \in MemberChoices.id}
    \cup {[n \in {"id", "name"} |-> IF n = "id" THEN a ELSE b] :
              a \in MemberChoices.id, b \in MemberChoices.name}

InputValues ==
    [id |-> {Nil, Value("string", "1"), Value("int", "2"), Value("uint8", "12"),
             Value("string", "abc")},
     name |-> {Nil, Value("string", "abc"), Value("string", "yes"), Value("int", "1")},
     extra |-> {Value("string", "x")}]

InputChoices ==
    UNION {[keys -> UNION {InputValues[k] : k \in {"id", "name", "extra"}}] :
               keys \in SUBSET {"id", "name", "extra"}}

Inputs == {m \in InputChoices : \A k \in DOMAIN m : m[k] \in InputValues[k]}

----------------------------------------------------------------------------
(* SpecObjectLoad: one call of Object.Load *)

InitObjectLoad ==
    /\ Design = "nil"
    /\ apiDSL = FALSE
    /\ Types = <<>>
    /\ Resources = <<>>
    /\ MediaTypes = <<>>
    /\ Errors = <<>>
    /\ ctxStack = <<>>
    /\ frames = <<>>
    /\ pc = "idle"
    /\ ret = Returned("none", <<>>)
    /\ \E o \in ObjectChoices : \E m \in Inputs : \E order \in OrdersOf(o) :
           run = [o |-> o, m |-> m, order |-> order]
    /\ vlog = <<>>

\* the call o.Load(m)
CallObjectLoad ==
    /\ vlog = <<>>
    /\ LET res == ObjectLoad(run.o, run.m, run.order)
       IN  vlog' = <<[op |-> "ObjectLoad", o |-> run.o, m |-> run.m,
                      val |-> res.val, err |-> res.err]>>
    /\ UNCHANGED <<treeVars, engineVars>>

NextObjectLoad == CallObjectLoad

SpecObjectLoad == InitObjectLoad /\ [][NextObjectLoad]_vars

----------------------------------------------------------------------------
(* The validation functions: validateFormat *)

\* strings.ToLower on the format names of the model
ToLower(f) ==
    CASE f = "Email" -> "email"
      [] f = "IPv4" -> "ipv4"
      [] OTHER -> f

FormatNames == {"date-time", "email", "hostname", "ipv4", "ipv6", "uri", "mac", "cidr"}

\* the strings of the model
FormatStrings ==
    {"2015-10-26T08:31:23Z", "a@b.com", "example.com", "192.168.0.1", "::1",
     "http://a.b/c", "01:23:45:67:89:ab", "10.0.0.0/8", "abc", ""}

\* hostnameRegex.MatchString: two letters or digits at the start, or a letter
\* at the end
MatchesHostnameRegex ==
    {"2015-10-26T08:31:23Z", "a@b.com", "example.com", "192.168.0.1", "http://a.b/c",
     "01:23:45:67:89:ab", "10.0.0.0/8", "abc"}

\* net.ParseIP returns an address
ParsesAsIP == {"192.168.0.1", "::1"}

\* ipv4Regex.MatchString
MatchesIPv4Regex == {"192.168.0.1"}

\* err after the switch of validateFormat on the lowered name: NoErr when nil
FormatErr(f, sval) ==
    LET bad == <<"invalid", f, sval>>
        lf == ToLower(f)
    IN  CASE lf = "date-time" ->
                 \* time.Parse(sval, time.RFC3339): sval is the layout and the
                 \* constant RFC3339 the value, which no layout of the model parses
                 bad
          [] lf = "email" -> IF sval = "a@b.com" THEN NoErr ELSE bad
          [] lf = "hostname" -> IF sval \in MatchesHostnameRegex THEN NoErr ELSE bad
          [] lf \in {"ipv4", "ipv6"} ->
                 IF f = "ipv4" /\ sval \notin MatchesIPv4Regex THEN bad
                 ELSE IF sval \notin ParsesAsIP THEN bad
                 ELSE NoErr
          [] lf = "uri" -> IF sval = "http://a.b/c" THEN NoErr ELSE bad
          [] lf = "mac" -> IF sval = "01:23:45:67:89:ab" THEN NoErr ELSE bad
          [] lf = "cidr" -> IF sval = "10.0.0.0/8" THEN NoErr ELSE bad
          [] OTHER -> <<"unknown validation format", f>>

\* the function validateFormat(name, f) returns, called on val
validateFormat(f, val) ==
    IF val = Nil THEN NoErr
    ELSE IF val.t # "string" THEN <<"has an invalid type", val.v, "need string">>
    ELSE <<"has an invalid value", FormatErr(f, val.v)>>

\* the strings of the model that conform to each format
Conforming ==
    [f \in FormatNames |->
        CASE f = "date-time" -> {"2015-10-26T08:31:23Z"}
          [] f = "email" -> {"a@b.com"}
          [] f = "hostname" -> {"example.com", "abc"}
          [] f = "ipv4" -> {"192.168.0.1"}
          [] f = "ipv6" -> {"::1"}
          [] f = "uri" -> {"http://a.b/c"}
          [] f = "mac" -> {"01:23:45:67:89:ab"}
          [] f = "cidr" -> {"10.0.0.0/8"}]

FormatChoices == FormatNames \cup {"Email", "IPv4", "phone"}

FormatValues ==
    {Nil, Value("int", "1"), Value("bool", "true")}
    \cup {Value("string", sval) : sval \in FormatStrings}

----------------------------------------------------------------------------
(* SpecFormat: one call of a Format validation *)

InitFormat ==
    /\ Design = "nil"
    /\ apiDSL = FALSE
    /\ Types = <<>>
    /\ Resources = <<>>
    /\ MediaTypes = <<>>
    /\ Errors = <<>>
    /\ ctxStack = <<>>
    /\ frames = <<>>
    /\ pc = "idle"
    /\ ret = Returned("none", <<>>)
    /\ \E f \in FormatChoices : \E val \in FormatValues : run = [f |-> f, val |-> val]
    /\ vlog = <<>>

\* the call validateFormat(name, f)(val)
CallValidateFormat ==
    /\ vlog = <<>>
    /\ vlog' = <<[op |-> "Format", f |-> run.f, val |-> run.val,
                  err |-> validateFormat(run.f, run.val)]>>
    /\ UNCHANGED <<treeVars, engineVars>>

NextFormat == CallValidateFormat

SpecFormat == InitFormat /\ [][NextFormat]_vars

----------------------------------------------------------------------------
(* The application: routes, NewApplication and Mount (package goa).  A nil  *)
(* slice is <<>>, a panic is the message it carries, "" when none.          *)

SingleRoute(verb, path) == [Verb |-> verb, Path |-> path]

\* SingleRoute.GetRawRoutes
SingleGetRawRoutes(r) == <<<<r.Verb, r.Path>>>>

\* MultiRoute.GetRawRoutes: make([][]string, len(m)) holds len(m) nil slices
\* and the loop appends one pair per route after them
MultiGetRawRoutes(m) ==
    [i \in 1..Len(m) |-> <<>>] \o [i \in 1..Len(m) |-> <<m[i].Verb, m[i].Path>>]

\* the Route of an action: a SingleRoute or a MultiRoute
Single(route) == [multi |-> FALSE, routes |-> <<route>>]
Multi(routes) == [multi |-> TRUE, routes |-> routes]

GetRawRoutes(route) ==
    IF route.multi THEN MultiGetRawRoutes(route.routes)
    ELSE SingleGetRawRoutes(route.routes[1])

\* the paths of the model, in the order of Go's string comparison
RoutePaths == <<"", "/x", "/x/{id}">>
PathRank(path) == CHOOSE i \in DOMAIN RoutePaths : RoutePaths[i] = path

\* sort.Sort(byPath(handlers)): the longer path first
RECURSIVE InsertByPath(_, _)
InsertByPath(sorted, h) ==
    IF sorted = <<>> THEN <<h>>
    ELSE IF PathRank(h.path) > PathRank(Head(sorted).path) THEN <<h>> \o sorted
    ELSE <<Head(sorted)>> \o InsertByPath(Tail(sorted), h)

RECURSIVE SortByPath(_)
SortByPath(handlers) ==
    IF handlers = <<>> THEN <<>>
    ELSE InsertByPath(SortByPath(Tail(handlers)), Head(handlers))

\* the loop of addHandlers over the raw routes of one action: route[0] and
\* route[1] of a nil slice are out of range
RECURSIVE RoutesLoop(_, _, _, _)
RoutesLoop(raw, i, name, handlers) ==
    IF i > Len(raw) THEN [panic |-> "", handlers |-> handlers]
    ELSE IF Len(raw[i]) = 0
         THEN [panic |-> "index out of range", handlers |-> handlers]
         ELSE RoutesLoop(raw, i + 1, name,
                  Append(handlers, [verb |-> raw[i][1], path |-> raw[i][2], action |-> name]))

\* the loop of addHandlers over definition.pActions, ranged over in the order
\* given
RECURSIVE HandlersLoop(_, _, _, _)
HandlersLoop(pActions, order, i, handlers) ==
    IF i > Len(order) THEN [panic |-> "", handlers |-> handlers]
    ELSE LET res == RoutesLoop(GetRawRoutes(pActions[order[i]].Route), 1, order[i], handlers)
         IN  IF res.panic # "" THEN res
             ELSE HandlersLoop(pActions, order, i + 1, res.handlers)

\* addHandlers: the handlers it registers, none when it panics in the loop
addHandlers(pActions, order) ==
    LET res == HandlersLoop(pActions, order, 1, <<>>)
    IN  IF res.panic # "" THEN [panic |-> res.panic, handlers |-> <<>>]
        ELSE [panic |-> "", handlers |-> SortByPath(res.handlers)]

\* NewApplication
NewApplication == [controllers |-> <<>>, routeMap |-> <<>>, handlers |-> <<>>]

\* url.Parse fails on this prefix of the model
UrlParses(path) == path # "%zz"

\* validateResource: nil for an empty media type, else the result of the
\* Validate of its model, given with the resource
validateResource(resource) ==
    IF resource.MediaType = "empty" THEN NoErr
    ELSE IF resource.MediaType = "invalid" THEN <<"invalid media type">>
    ELSE NoErr

\* the test of Mount for a controller mounted under the path
AlreadyMounted(a, path) == path \in DOMAIN a.controllers

\* finalizeResource of package goa: the actions of the resource, copied
pActions(resource) == [an \in DOMAIN resource.Actions |-> resource.Actions[an]]

\* Mount: the panic, "" when it returns, and the application after it; the
\* resource is <<>> when nil, <<resource>> otherwise
Mount(a, res, order) ==
    IF res = <<>> THEN [panic |-> "missing resource", app |-> a]
    ELSE LET resource == res[1] IN
    IF IsErr(validateResource(resource)) THEN [panic |-> "invalid resource", app |-> a]
    ELSE IF AlreadyMounted(a, resource.RoutePrefix)
    THEN [panic |-> "controller already mounted", app |-> a]
    ELSE IF ~UrlParses(resource.RoutePrefix)
    THEN [panic |-> "invalid path specification", app |-> a]
    ELSE LET a1 == [a EXCEPT !.routeMap = Append(@, resource.RoutePrefix)]
             hs == addHandlers(pActions(resource), order)
         IN  [panic |-> hs.panic,
              app |-> [a1 EXCEPT !.handlers =
                          @ \o [i \in 1..Len(hs.handlers) |->
                                   [prefix |-> resource.RoutePrefix, h |-> hs.handlers[i]]]]]

\* the routes, the resources and the Mount calls of the model
MountRouteChoices ==
    {Single(SingleRoute("GET", "/x")),
     Single(SingleRoute("POST", "")),
     Multi(<<>>),
     Multi(<<SingleRoute("GET", "/x/{id}")>>),
     Multi(<<SingleRoute("GET", "/x"), SingleRoute("PUT", "/x/{id}")>>)}

MountResource(prefix, mt, actions) ==
    [RoutePrefix |-> prefix, MediaType |-> mt, Actions |-> actions]

MountChoices ==
    {<<>>}
    \cup {<<MountResource(prefix, "empty", [an \in {"show"} |-> [Route |-> route]])>> :
              prefix \in {"/a", "/b"}, route \in MountRouteChoices}
    \cup {<<MountResource("/a", "empty",
                          [an \in {"list", "show"} |->
                              [Route |-> IF an = "list" THEN Single(SingleRoute("GET", ""))
                                         ELSE Single(SingleRoute("GET", "/x/{id}"))]])>>,
          <<MountResource("/a", "invalid", <<>>)>>,
          <<MountResource("/b", "valid", <<>>)>>,
          <<MountResource("%zz", "empty", <<>>)>>}

MountOrders(res) == IF res = <<>> THEN {<<>>} ELSE OrdersOf(res[1].Actions)

----------------------------------------------------------------------------
(* SpecMount: Mount calls on one application *)

InitMount ==
    /\ Design = "nil"
    /\ apiDSL = FALSE
    /\ Types = <<>>
    /\ Resources = <<>>
    /\ MediaTypes = <<>>
    /\ Errors = <<>>
    /\ ctxStack = <<>>
    /\ frames = <<>>
    /\ pc = "idle"
    /\ ret = Returned("none", <<>>)
    /\ run = NewApplication
    /\ vlog = <<>>

\* the call app.Mount(resource, controller)
CallMount(res) ==
    /\ Len(vlog) < MaxCalls
    /\ \E order \in MountOrders(res) :
           LET out == Mount(run, res, order)
           IN  /\ run' = out.app
               /\ vlog' = Append(vlog, [op |-> "Mount", res |-> res, panic |-> out.panic,
                                        pre |-> run, post |-> out.app])
    /\ UNCHANGED <<treeVars, Errors, ctxStack, frames, pc, ret>>

NextMount == \E res \in MountChoices : CallMount(res)

SpecMount == InitMount /\ [][NextMount]_vars

----------------------------------------------------------------------------
(* The generated code (package gen_app): the context constructor, the       *)
(* response methods and the handler that Mount<Resource>Controller builds.  *)
(* ContextTemplateData is a record of Params (name -> Kind and Required),   *)
(* Headers, Payload, Routes (each with the result of its Params()),         *)
(* Responses and MediaTypes.                                                 *)

\* the loop of IsPathParam over c.Routes
RECURSIVE IsPathParamLoop(_, _, _, _)
IsPathParamLoop(routes, i, param, pp) ==
    IF i > Len(routes) THEN pp
    ELSE IF \E k \in DOMAIN routes[i].Params : routes[i].Params[k] = param
         THEN IsPathParamLoop(routes, i + 1, param, TRUE)
         ELSE FALSE

IsPathParam_AnyRoute(c, param) ==
    \E i \in DOMAIN c.Routes : \E k \in DOMAIN c.Routes[i].Params :
        c.Routes[i].Params[k] = param
IsPathParam(c, param) == IsPathParamLoop(c.Routes, 1, param, FALSE)

\* c.Params.IsRequired(name)
IsRequired(att, name) == att[name].Required

MustValidate(c, name) == IsRequired(c.Params, name) /\ ~IsPathParam(c, name)

MustSetHas(c, name) == ~IsRequired(c.Params, name) /\ ~IsPathParam(c, name)

\* what ctxT and ctxNewT generate for a parameter: the test of its presence
\* and the Has field
GenParam(c, name) ==
    [check |-> MustValidate(c, name), has |-> MustSetHas(c, name)]

\* the errors of package goa: each adds an entry for the field to the error
\* it is given
MissingHeaderError(name, err) == Append(err, <<"missing header", name>>)
MissingParamError(name, err) == Append(err, <<"missing parameter", name>>)
InvalidParamTypeError(name, val, expected, err) ==
    Append(err, <<"invalid parameter type", name>>)

\* the error of strconv for the string raw
StrconvErr(raw) == <<<<"strconv", raw>>>>

\* coerceT: the field and the error after the coercion of raw
Coerce(name, kind, raw, ctx, err) ==
    LET set(v) == [ctx |-> [ctx EXCEPT !.fields = Put(@, name, v)], err |-> err]
        fail(expected) ==
            [ctx |-> ctx, err |-> InvalidParamTypeError(name, raw, expected, StrconvErr(raw))]
    IN  CASE kind = "Boolean" ->
                 IF raw \in ParseBoolTrue THEN set(Value("bool", "true"))
                 ELSE IF raw \in ParseBoolFalse THEN set(Value("bool", "false"))
                 ELSE fail("boolean")
          [] kind = "Integer" ->
                 IF ParseInt(raw) # <<>> THEN set(Value("int", ParseInt(raw)[1]))
                 ELSE fail("integer")
          [] kind = "Number" ->
                 IF ParseFloat(raw) # <<>> THEN set(Value("float64", ParseFloat(raw)[1]))
                 ELSE fail("number")
          [] kind = "String" -> set(Value("string", raw))

\* the names of the model in the order a template ranges over a map
SortedNames == <<"Auth", "id", "page">>

\* ctxNewT: the tests of the required headers
RECURSIVE HeadersLoop(_, _, _, _)
HeadersLoop(c, req, i, err) ==
    IF i > Len(SortedNames) THEN err
    ELSE LET name == SortedNames[i]
         IN  IF name \in DOMAIN c.Headers /\ IsRequired(c.Headers, name)
                  /\ name \notin req.headers
             THEN HeadersLoop(c, req, i + 1, MissingHeaderError(name, err))
             ELSE HeadersLoop(c, req, i + 1, err)

\* ctxNewT: the parameters
RECURSIVE ParamsLoop(_, _, _, _, _)
ParamsLoop(c, req, i, ctx, err) ==
    IF i > Len(SortedNames) THEN [ctx |-> ctx, err |-> err]
    ELSE
        LET name == SortedNames[i]
            ok == name \in DOMAIN req.params
        IN  IF name \notin DOMAIN c.Params THEN ParamsLoop(c, req, i + 1, ctx, err)
            ELSE IF ~ok
            THEN ParamsLoop(c, req, i + 1, ctx,
                     IF MustValidate(c, name) THEN MissingParamError(name, err) ELSE err)
            ELSE LET co == Coerce(name, c.Params[name].Kind, req.params[name], ctx, err)
                 IN  ParamsLoop(c, req, i + 1,
                         IF MustSetHas(c, name)
                         THEN [co.ctx EXCEPT !.has = @ \cup {name}] ELSE co.ctx,
                         co.err)

\* New<Payload>: the payload or the error of a raw body of the model
NewPayload(payload) ==
    IF payload = "bad" THEN [p |-> <<>>, err |-> <<<<"invalid attribute type", "payload">>>>]
    ELSE [p |-> <<payload>>, err |-> NoErr]

\* ctxNewT: the constructor New<Name>Context; the context is <<>> when nil
ctxNew(c, req) ==
    LET ctx0 == [fields |-> <<>>, has |-> {}, payload |-> <<>>]
        err0 == HeadersLoop(c, req, 1, NoErr)
        ps == ParamsLoop(c, req, 1, ctx0, err0)
    IN  IF c.Payload /\ req.payload # "nil"
        THEN LET np == NewPayload(req.payload)
             IN  IF IsErr(np.err) THEN [ctx |-> <<>>, err |-> np.err]
                 ELSE [ctx |-> <<[ps.ctx EXCEPT !.payload = np.p]>>, err |-> ps.err]
        ELSE [ctx |-> <<ps.ctx>>, err |-> ps.err]

\* mountT: the handler calls the controller when the constructor's err is nil
CallsController_Always(err) == TRUE
CallsController(err) == ~IsErr(err)

\* ctxRespT: the method of the response name: what it sends and what it
\* returns, given whether Dump fails
ctxResp_SendOnDumpError(c, name, dumpFails) ==
    [sent |-> <<[status |-> c.Responses[name].Status, body |-> "dump"]>>,
     err |-> IF dumpFails THEN <<"dump">> ELSE NoErr]
ctxResp(c, name, dumpFails) ==
    LET resp == c.Responses[name]
    IN  IF resp.MediaType \in DOMAIN c.MediaTypes
        THEN IF dumpFails THEN [sent |-> <<>>, err |-> <<"dump">>]
             ELSE [sent |-> <<[status |-> resp.Status, body |-> "dump"]>>, err |-> NoErr]
        ELSE [sent |-> <<[status |-> resp.Status, body |-> "nil"]>>, err |-> NoErr]

\* the actions of the model
Param(kind, required) == [Kind |-> kind, Required |-> required]

ContextParamsChoices ==
    {<<>>,
     [n \in {"id"} |-> Param("Integer", TRUE)],
     [n \in {"id", "page"} |-> IF n = "id" THEN Param("Integer", TRUE)
                               ELSE Param("Integer", FALSE)],
     [n \in {"id", "page"} |-> IF n = "id" THEN Param("Integer", FALSE)
                               ELSE Param("Boolean", TRUE)]}

ParamRoute(verb, path, params) == [Verb |-> verb, Path |-> path, Params |-> params]

ContextRoutesChoices ==
    {<<>>,
     <<ParamRoute("GET", "/x/:id", <<"id">>)>>,
     <<ParamRoute("GET", "/x/:id", <<"id">>), ParamRoute("GET", "/y", <<>>)>>}

ContextHeadersChoices == {<<>>, [n \in {"Auth"} |-> [Required |-> TRUE]]}

ContextResponses ==
    [OK |-> [Status |-> 200, MediaType |-> "application/vnd.m"],
     NotFound |-> [Status |-> 404, MediaType |-> ""]]

ContextMediaTypes == [m \in {"application/vnd.m"} |-> [Views |-> {"default"}]]

ContextChoices ==
    {[Params |-> ps, Headers |-> hs, Payload |-> pl, Routes |-> rs,
      Responses |-> ContextResponses, MediaTypes |-> ContextMediaTypes] :
         ps \in ContextParamsChoices, hs \in ContextHeadersChoices,
         pl \in BOOLEAN, rs \in ContextRoutesChoices}

\* the requests of the model: the raw parameters, the headers and the body
RawParams ==
    UNION {[keys -> {"1", "2", "true", "x"}] : keys \in SUBSET {"id", "page"}}

RequestChoices ==
    {[params |-> ps, headers |-> hs, payload |-> pl] :
         ps \in RawParams, hs \in SUBSET {"Auth"}, pl \in {"nil", "ok", "bad"}}

\* the router gives the handler the requests that match one of its routes:
\* the parameters of that route are present (the constructor of an action
\* with no route is called with any request)
Routed(c, req) ==
    \/ c.Routes = <<>>
    \/ \E i \in DOMAIN c.Routes :
        \A k \in DOMAIN c.Routes[i].Params : c.Routes[i].Params[k] \in DOMAIN req.params

Event(op, name, dumpFails, ctx, err, sent) ==
    [op |-> op, name |-> name, dumpFails |-> dumpFails, ctx |-> ctx, err |-> err,
     sent |-> sent]

----------------------------------------------------------------------------
(* SpecContext: one request given to the handler of an action *)

InitContext ==
    /\ Design = "nil"
    /\ apiDSL = FALSE
    /\ Types = <<>>
    /\ Resources = <<>>
    /\ MediaTypes = <<>>
    /\ Errors = <<>>
    /\ ctxStack = <<>>
    /\ frames = <<>>
    /\ pc = "idle"
    /\ ret = Returned("none", <<>>)
    /\ \E c \in ContextChoices : \E req \in RequestChoices :
           /\ Routed(c, req)
           /\ run = [c |-> c, req |-> req]
    /\ vlog = <<>>

\* h: ctx, err := New<Name>Context(c)
NewContext ==
    /\ vlog = <<>>
    /\ LET res == ctxNew(run.c, run.req)
       IN  vlog' = <<Event("New", "", FALSE, res.ctx, res.err, <<>>)>>
    /\ UNCHANGED <<treeVars, engineVars>>

\* h: if err != nil { return err }
HandlerReturnsErr ==
    /\ Len(vlog) = 1
    /\ ~CallsController(vlog[1].err)
    /\ vlog' = Append(vlog, Event("Return", "", FALSE, <<>>, vlog[1].err, <<>>))
    /\ UNCHANGED <<treeVars, engineVars>>

\* h: return ctrl.<Action>(ctx)
CallController ==
    /\ Len(vlog) = 1
    /\ CallsController(vlog[1].err)
    /\ vlog' = Append(vlog, Event("Controller", "", FALSE, vlog[1].ctx, NoErr, <<>>))
    /\ UNCHANGED <<treeVars, engineVars>>

\* the controller calls the method of a response of the context
CallResponse(name, dumpFails) ==
    /\ Len(vlog) = 2
    /\ vlog[2].op = "Controller"
    /\ LET res == ctxResp(run.c, name, dumpFails)
       IN  vlog' = Append(vlog, Event("Respond", name, dumpFails, <<>>, res.err, res.sent))
    /\ UNCHANGED <<treeVars, engineVars>>

NextContext ==
    \/ NewContext
    \/ HandlerReturnsErr
    \/ CallController
    \/ \E name \in DOMAIN ContextResponses : \E dumpFails \in BOOLEAN :
           CallResponse(name, dumpFails)

SpecContext == InitContext /\ [][NextContext]_vars

----------------------------------------------------------------------------
(* Claims about the DSL engine, checked under Spec *)

\* the registered bodies: the definitions whose DSL is not nil
AllBodies == {d \in UNION {PhaseDefs(p) : p \in PhaseSet} : HasDSL(d)}

PhaseOf(d) ==
    CASE d.kind = "api" -> 1
      [] d.kind = "type" -> 2
      [] d.kind = "mediatype" -> 3
      [] d.kind = "resource" -> 4

Times(ev, d) == Cardinality({k \in 1..Len(run.log) : run.log[k] = <<ev, d>>})

\* the errors of the list are the errors raised, in the order raised, each with
\* the context of the body that raised it
SameErrors(errors, raised) ==
    /\ Len(errors) = Len(raised)
    /\ \A i \in 1..Len(raised) :
          /\ errors[i].msg = <<"invalid use of", raised[i].func>>
          /\ errors[i].in = <<raised[i].ctx.kind, raised[i].ctx.name>>

\* C1: Finalize runs only when Design.Validate returned no error and no DSL error
\* was recorded during the run; when Validate returned an error or a DSL error was
\* recorded, RunDSL returns a non-nil error and Finalize touched no definition.
C1_FinalizeOnlyWhenValid ==
    /\ run.finalized => run.validated /\ ~IsErr(run.verr) /\ run.raised = <<>>
    /\ (pc = "done" /\ ((run.validated /\ IsErr(run.verr)) \/ run.raised # <<>>)) =>
          /\ ret.kind \in {"validate error", "Errors"}
          /\ ret.val # <<>>
          /\ ~run.finalized
          /\ <<Tree(Resources, MediaTypes)>> = run.atValidate

\* C1 witness: RunDSL returned Errors for a tree that passes Validate and holds
\* an action with a wildcard route, which Finalize would have given a parameter.
C1_Witness ==
    /\ pc = "done"
    /\ ret.kind = "Errors"
    /\ ~IsErr(run.verr)
    /\ "a1" \in DOMAIN Resources["r1"].Actions
    /\ Resources["r1"].Actions["a1"].Routes # <<>>
    /\ Resources["r1"].Actions["a1"].Params = <<>>

\* C3: the bodies run in the order API, user types, media types, resources: when
\* a body starts, every registered body of an earlier phase has finished, and
\* action bodies run nested inside a resource body.
C3_PhaseOrder ==
    /\ \A k \in 1..Len(run.log) :
          run.log[k][1] = "start" =>
              \A e \in AllBodies :
                  PhaseOf(e) < PhaseOf(run.log[k][2]) =>
                      \E j \in 1..(k - 1) : run.log[j] = <<"end", e>>
    /\ \A i \in 1..Len(frames) :
          frames[i].ctx.kind = "action" <=> i > 1
    /\ Len(frames) > 1 => frames[1].ctx.kind = "resource"

\* C3 witness: a resource body runs after the API, type and media type bodies.
C3_Witness ==
    /\ frames # <<>>
    /\ frames[1].ctx = Ctx("resource", "r1")
    /\ Times("end", Ctx("api", "Design")) = 1
    /\ Times("end", Ctx("type", "t1")) = 1
    /\ Times("end", Ctx("mediatype", "m1")) = 1

\* C4: the context stack is strictly nested: it holds the definitions of the
\* bodies in progress, innermost on top; when executeDSL returns the stack is
\* what the call found; outside the evaluation of bodies the stack is empty.
C4_StackNested ==
    /\ Len(ctxStack) = Len(frames)
    /\ \A i \in 1..Len(frames) :
          /\ i <= Len(ctxStack) /\ ctxStack[i] = frames[i].ctx
          /\ frames[i].saved = SubSeq(ctxStack, 1, i - 1)
    /\ run.lastExec # <<>> => run.lastExec[1] = run.lastExec[2]
    /\ pc \in {"idle", "validate", "finalize", "done"} => ctxStack = <<>>

\* C4 witness: an action body that recorded an error returned to its resource body.
C4_Witness ==
    /\ run.lastExec # <<>>
    /\ run.lastExec[1] = <<Ctx("resource", "r1")>>
    /\ ctxStack = <<Ctx("resource", "r1")>>
    /\ run.raised # <<>>
    /\ run.raised[Len(run.raised)].ctx.kind = "action"

IncompatibleCall ==
    \/ (\E rt \in RouteChoices : Routing(rt)) /\ ~actionDefinition(ctxStack)
    \/ (\E name \in ActionNames : \E dsl \in BOOLEAN : Action(name, dsl))
          /\ ~resourceDefinition(ctxStack)

PendingDefs(fs) == [i \in 1..Len(fs) |-> fs[i].def]

\* C5: a builder called in an incompatible context appends exactly one error to
\* Errors, changes no definition and leaves the enclosing body running.
C5_IncompatibleContextRecorded ==
    [][IncompatibleCall =>
          /\ Len(Errors') = Len(Errors) + 1
          /\ SubSeq(Errors', 1, Len(Errors)) = Errors
          /\ Errors'[Len(Errors')].msg[1] = "invalid use of"
          /\ treeVars' = treeVars
          /\ PendingDefs(frames') = PendingDefs(frames)
          /\ ctxStack' = ctxStack
          /\ pc' = pc
          /\ ret' = ret]_vars

\* C5 witness: Routing was called by the body of the resource, which still runs.
C5_Witness ==
    /\ frames # <<>>
    /\ Top.ctx = Ctx("resource", "r1")
    /\ Top.ops = 1
    /\ Errors # <<>>
    /\ Errors[Len(Errors)] = [msg |-> <<"invalid use of", "Routing">>, in |-> <<"resource", "r1">>]

\* C6: an error does not abort the engine: when the evaluation phase ends every
\* registered body ran exactly once and Errors holds every error raised during
\* the run, in the order raised.
C6_EveryBodyRunsEveryErrorKept ==
    pc = "validate" =>
        /\ \A d \in AllBodies : Times("start", d) = 1 /\ Times("end", d) = 1
        /\ SameErrors(Errors, run.raised)

\* C6 witness: the API body and a later body each recorded an error.
C6_Witness ==
    /\ pc = "validate"
    /\ Len(Errors) = 2
    /\ Errors[1].in = <<"api", "Design">>
    /\ Errors[2].in[1] = "action"

\* C7: when RunDSL is about to execute its first body Errors and the context
\* stack are empty, whatever the caller left in them, and the error list RunDSL
\* returns holds the errors raised during that run only.
C7_StateResetAtStart ==
    /\ (pc = "api" /\ run.log = <<>>) => Errors = <<>> /\ ctxStack = <<>>
    /\ (pc = "done" /\ ret.kind = "Errors") => SameErrors(ret.val, run.raised)

\* C7 witness: RunDSL starts with errors left by an earlier run or builder call.
C7_Witness ==
    /\ pc = "api"
    /\ run.log = <<>>
    /\ run.left
    /\ Errors = <<>>

----------------------------------------------------------------------------
(* Claims about the Validate pass, checked under SpecValidate *)

DesignCalls == {i \in 1..Len(vlog) : vlog[i].op = "Design"}
ActionCalls == {i \in 1..Len(vlog) : vlog[i].op = "Action"}
CalledAction(i) == vlog[i].pre.R[vlog[i].res].Actions[vlog[i].act]

\* C2: the Validate pass never modifies the design tree: after every call of
\* Design.Validate every field of every definition is what it was before.
C2_ValidateLeavesTreeUnmodified ==
    \A i \in DesignCalls : vlog[i].post = vlog[i].pre

HasDuplicateStatus(a) ==
    \E i, j \in DOMAIN a.Responses : i # j /\ a.Responses[i].Status = a.Responses[j].Status

IsDuplicateStatusError(e) ==
    IsErr(e) /\ e[1] = "Multiple response definitions with status code"

Unshared(a, i) == \A j \in DOMAIN a.Responses : i # j => a.Responses[i].Status # a.Responses[j].Status

\* the response passes its own Validate
ResponseValid(r, mts) == \A o \in ResponseDefinitionValidate(r, mts) : ~IsErr(o.err)

RECURSIVE RequiresAbsentMember(_)
RequiresAbsentMember(a) ==
    \/ /\ a.Kind = "Object"
       /\ \E i \in 1..Len(a.Validations) : \E j \in 1..Len(a.Validations[i]) :
              a.Validations[i][j] \notin DOMAIN a.Members
    \/ \E n \in DOMAIN a.Members : RequiresAbsentMember(a.Members[n])
    \/ a.Elem # <<>> /\ RequiresAbsentMember(a.Elem[1])

TreeRequiresAbsentMember(t) ==
    \E r \in DOMAIN t.R : \E n \in DOMAIN t.R[r].Actions :
        LET a == t.R[r].Actions[n] IN
        \/ a.Params # <<>> /\ RequiresAbsentMember(a.Params[1])
        \/ a.Payload # <<>> /\ RequiresAbsentMember(a.Payload[1].Att)

\* C9: Design.Validate returns an error for every tree in which an object, at any
\* nesting depth, requires a member it does not have.
C9_AbsentRequiredRejected ==
    \A i \in DesignCalls : TreeRequiresAbsentMember(vlog[i].pre) => IsErr(vlog[i].err)

\* C10: two runs of Design.Validate on the same unmodified tree return the same
\* outcome, the same error included.
C10_ValidateDeterministic ==
    \A i, j \in DesignCalls :
        (vlog[i].pre = vlog[j].pre /\ vlog[i].post = vlog[i].pre /\ vlog[j].post = vlog[j].pre)
            => vlog[i].err = vlog[j].err

----------------------------------------------------------------------------
(* Claims about the Finalize pass, checked under SpecFinalize *)

\* the second pass has run: the tree before it and the tree now
Finalized == pc = "done" /\ run.finalized
PreFinal == run.preFinal[1]
TreeNow == FullTree(Resources, MediaTypes, Types)

\* C11: the finalize pass applied to a tree that was already finalized changes
\* nothing: every action, response and type is what it was before the pass.
C11_FinalizeFixedPoint ==
    (Finalized /\ run.n > 1) => TreeNow = PreFinal

\* C11 witness: the pass ran again on a tree whose first pass synthesized a
\* parameter and merged a response.
C11_Witness ==
    /\ Finalized
    /\ run.n > 1
    /\ Resources["r1"].Actions["a1"].Params # <<>>
    /\ "accountID" \in DOMAIN Resources["r1"].Actions["a1"].Params[1].Members
    /\ "Created" \in DOMAIN Resources["r1"].Actions["a1"].Responses
    /\ Resources["r1"].Actions["a1"].Responses["Created"].Headers = <<"Link">>

\* the names of the wildcards of the routes of an action
WildcardsOf(a) ==
    UNION {{a.Routes[i].Path[j].s :
               j \in {k \in 1..Len(a.Routes[i].Path) : a.Routes[i].Path[k].wc}} :
           i \in 1..Len(a.Routes)}

\* the members of the Params object of an action, <<>> when Params is nil
ParamMembers(a) == IF a.Params = <<>> THEN <<>> ELSE a.Params[1].Members

\* C12: after finalizeResource every wildcard of every route of an action is a
\* member of the action's Params; a member synthesized for a wildcard is a
\* String with no validations; every declared parameter, and the validations of
\* the Params object, are what they were before.
C12_EveryWildcardHasParam ==
    Finalized =>
        \A r \in DOMAIN Resources : \A n \in DOMAIN Resources[r].Actions :
            LET pre == PreFinal.R[r].Actions[n]
                post == Resources[r].Actions[n]
            IN  /\ \A w \in WildcardsOf(post) :
                      /\ w \in DOMAIN ParamMembers(post)
                      /\ w \notin DOMAIN ParamMembers(pre) =>
                             ParamMembers(post)[w] = Att("String", <<>>, <<>>, <<>>)
                /\ \A d \in DOMAIN ParamMembers(pre) :
                      /\ d \in DOMAIN ParamMembers(post)
                      /\ ParamMembers(post)[d] = ParamMembers(pre)[d]
                /\ pre.Params # <<>> =>
                      /\ post.Params # <<>>
                      /\ post.Params[1].Validations = pre.Params[1].Validations
                      /\ post.Params[1].Kind = pre.Params[1].Kind

\* C12 witness: the route /accounts/:accountID/bottles/:id of an action that
\* declared "id" and "page" only, first pass.
C12_Witness ==
    /\ Finalized
    /\ run.n = 1
    /\ PreFinal.R["r1"].Actions["a1"].Routes = <<AccountBottle>>
    /\ DOMAIN ParamMembers(PreFinal.R["r1"].Actions["a1"]) = {"id", "page"}
    /\ DOMAIN ParamMembers(Resources["r1"].Actions["a1"]) = {"id", "page", "accountID"}

\* C13: after Finalize a user type or media type that declares a base type has
\* every attribute of the base type: its own attribute when it declared one
\* with that name, otherwise the attribute of the base type.
C13_BaseAttributesMerged ==
    Finalized =>
        /\ \A t \in DOMAIN Types :
              Types[t].BaseType # <<>> =>
                  \A n \in DOMAIN Types[t].BaseType[1].Members :
                      /\ n \in DOMAIN Types[t].Att.Members
                      /\ Types[t].Att.Members[n] =
                            IF n \in DOMAIN PreFinal.T[t].Att.Members
                            THEN PreFinal.T[t].Att.Members[n]
                            ELSE Types[t].BaseType[1].Members[n]
        /\ \A m \in DOMAIN MediaTypes :
              MediaTypes[m].BaseType # <<>> =>
                  \A n \in DOMAIN MediaTypes[m].BaseType[1] :
                      /\ n \in DOMAIN MediaTypes[m].Atts
                      /\ MediaTypes[m].Atts[n] =
                            IF n \in DOMAIN PreFinal.M[m].Atts
                            THEN PreFinal.M[m].Atts[n]
                            ELSE MediaTypes[m].BaseType[1][n]

\* the value of the field f in the definition named n of the map m, unset when
\* the map has no such definition
FieldOf(m, n, f, unset) == IF n \in DOMAIN m THEN m[n][f] ELSE unset

\* the first value of the sequence that is set
RECURSIVE FirstSet(_, _)
FirstSet(vals, unset) ==
    IF vals = <<>> THEN unset
    ELSE IF vals[1] # unset THEN vals[1] ELSE FirstSet(Tail(vals), unset)

\* the field f of the response named n of an action of the resource r, as the
\* response merge leaves it
MergedField(r, resp, n, f, unset) ==
    FirstSet(<<resp[f], FieldOf(r.Responses, n, f, unset),
               FieldOf(APIResponses, n, f, unset),
               FieldOf(DefaultResponses, n, f, unset)>>, unset)

\* C14: the response merge fills unset fields only: a field the action's
\* response set keeps its value, an unset field takes the value of the first of
\* the resource-level, API-level and built-in definitions of that name that
\* sets it.
C14_MergeFillsUnsetFields ==
    (Finalized /\ run.n = 1) =>
        \A r \in DOMAIN Resources : \A a \in DOMAIN Resources[r].Actions :
            LET pre == PreFinal.R[r].Actions[a].Responses
                post == Resources[r].Actions[a].Responses
            IN  /\ DOMAIN post = DOMAIN pre
                /\ \A n \in DOMAIN pre :
                      /\ post[n].Status = MergedField(PreFinal.R[r], pre[n], n, "Status", 0)
                      /\ post[n].MediaType = MergedField(PreFinal.R[r], pre[n], n, "MediaType", "")
                      /\ post[n].Headers = MergedField(PreFinal.R[r], pre[n], n, "Headers", <<>>)

\* C14 witness: the action's OK response set its status only, the resource's OK
\* response another status and no media type: the API's media type fills in.
C14_Witness ==
    /\ Finalized
    /\ run.n = 1
    /\ PreFinal.R["r1"].Actions["a1"].Responses = [n \in {"OK"} |-> Response(200, "")]
    /\ PreFinal.R["r1"].Responses = [n \in {"OK"} |-> Response(201, "")]
    /\ Resources["r1"].Actions["a1"].Responses["OK"] = Response(200, "mapi")

\* C16: whenever RunDSL returns without error no action has two responses with
\* the same status, the statuses taken after the response merge.
C16_StatusesUniqueAfterFinalize ==
    (pc = "done" /\ ret.kind = "nil") =>
        \A r \in DOMAIN Resources : \A a \in DOMAIN Resources[r].Actions :
            ~HasDuplicateStatus(Resources[r].Actions[a])

\* C16 witness: RunDSL returned nil for an action with two merged responses.
C16_Witness ==
    /\ pc = "done"
    /\ ret.kind = "nil"
    /\ DOMAIN Resources["r1"].Actions["a1"].Responses = {"OK", "NotFound"}
    /\ Resources["r1"].Actions["a1"].Responses["OK"].MediaType # ""

----------------------------------------------------------------------------
(* Claims about the tree RunDSL returns, checked under Spec *)

\* C15: whenever RunDSL returns without error every action of every resource of
\* Design has at least one route.
C15_EveryActionHasRoute ==
    (pc = "done" /\ ret.kind = "nil") =>
        \A r \in DOMAIN Resources : \A a \in DOMAIN Resources[r].Actions :
            Len(Resources[r].Actions[a].Routes) > 0

\* C15 witness: RunDSL returned nil after the body of a resource declared an
\* action whose body declared a route.
C15_Witness ==
    /\ pc = "done"
    /\ ret.kind = "nil"
    /\ run.finalized
    /\ "a1" \in DOMAIN Resources["r1"].Actions
    /\ Len(Resources["r1"].Actions["a1"].Routes) > 0

----------------------------------------------------------------------------
(* More claims about the Validate pass, checked under SpecValidate *)

MediaTypeCalls == {i \in 1..Len(vlog) : vlog[i].op = "MediaType"}

\* the media type has a link LinkDefinition.Validate rejects
HasInvalidLink(m, mts) ==
    \E n \in DOMAIN m.Links : IsErr(LinkDefinitionValidate(m.Links[n], m, mts))

\* C17: a media type with a link whose view does not exist on the link's target
\* media type, or whose name matches no media-typed attribute, is rejected:
\* MediaTypeDefinition.Validate returns an error for it, and Design.Validate
\* returns an error for a tree that holds it.
C17_InvalidLinkRejected ==
    /\ \A i \in MediaTypeCalls :
          HasInvalidLink(vlog[i].pre.M[vlog[i].res], vlog[i].pre.M) => IsErr(vlog[i].err)
    /\ \A i \in DesignCalls :
          (\E m \in DOMAIN vlog[i].pre.M : HasInvalidLink(vlog[i].pre.M[m], vlog[i].pre.M))
              => IsErr(vlog[i].err)

\* some resource names a parent that is no resource of the tree
HasUnknownParent(t) ==
    \E r \in DOMAIN t.R : t.R[r].ParentName # "" /\ t.R[r].ParentName \notin DOMAIN t.R

\* C18: APIDefinition.Validate returns an error for every tree in which a
\* resource names a parent that is no resource of Design.Resources; in a tree
\* that passes, every parent name is the name of a resource.
C18_UnknownParentRejected ==
    \A i \in DesignCalls :
        /\ HasUnknownParent(vlog[i].pre) => IsErr(vlog[i].err)
        /\ ~IsErr(vlog[i].err) =>
              \A r \in DOMAIN vlog[i].post.R :
                  vlog[i].post.R[r].ParentName \in DOMAIN vlog[i].post.R \cup {""}

\* C18 witness: Validate rejected a tree whose resource r2, otherwise valid,
\* names the parent "gone", and whose other resource is valid.
C18_Witness ==
    \E i \in DesignCalls :
        /\ DOMAIN vlog[i].pre.R = {"r1", "r2"}
        /\ vlog[i].pre.R["r2"].ParentName = "gone"
        /\ vlog[i].pre.R["r1"].ParentName = ""
        /\ \A o \in ResourceDefinitionValidate(vlog[i].pre.R["r1"], vlog[i].pre.R, vlog[i].pre.M) :
              ~IsErr(o.err)
        /\ IsErr(vlog[i].err)

\* the actions of the tree that have no route
RoutelessActions(t) ==
    UNION {{t.R[r].Actions[a].Name :
               a \in {b \in DOMAIN t.R[r].Actions : Len(t.R[r].Actions[b].Routes) = 0}} :
           r \in DOMAIN t.R}

\* the error names the string
Mentions(e, str) == \E k \in 1..Len(e) : e[k] = str

\* C19: Validate reports every violation of the tree, not only the first one it
\* meets: the error Design.Validate returns names every action that has no
\* route.
C19_EveryViolationReported ==
    \A i \in DesignCalls :
        \A nm \in RoutelessActions(vlog[i].pre) \ {""} : Mentions(vlog[i].err, nm)

----------------------------------------------------------------------------
(* Claims about the type library, checked under SpecLoad *)

BooleanLoads == {i \in 1..Len(vlog) : vlog[i].op = "Load" /\ vlog[i].kind = "Boolean"}

IsIncompatibleValue(e) == IsErr(e) /\ e[1] = "IncompatibleValue"

\* C20: Primitive.Load for kind Boolean accepts the integers 0 and 1 of every
\* native integer width, returning false for 0 and true for 1, accepts native
\* booleans and parseable boolean strings, and returns an IncompatibleValue
\* error for every other value that is not nil.
C20_BooleanLoad ==
    \A i \in BooleanLoads :
        LET value == vlog[i].value
            ok(b) == vlog[i].err = NoErr /\ vlog[i].val = <<Value("bool", b)>>
        IN  IF value = Nil THEN TRUE
            ELSE IF value.t \in IntTypes /\ value.v = "0" THEN ok("false")
            ELSE IF value.t \in IntTypes /\ value.v = "1" THEN ok("true")
            ELSE IF value.t = "bool" THEN ok(value.v)
            ELSE IF value.t = "string" /\ value.v \in ParseBoolTrue THEN ok("true")
            ELSE IF value.t = "string" /\ value.v \in ParseBoolFalse THEN ok("false")
            ELSE vlog[i].val = <<>> /\ IsIncompatibleValue(vlog[i].err)

Loads == {i \in 1..Len(vlog) : vlog[i].op = "Load"}

\* C21: for every primitive kind and every well-formed literal string of that
\* kind Load succeeds, and the value loaded, dumped and loaded again with the
\* same kind is the same value.
C21_LiteralsLoadAndRoundTrip ==
    \A i \in Loads :
        (vlog[i].value.t = "string" /\ vlog[i].value.v \in Literals(vlog[i].kind))
            => /\ vlog[i].err = NoErr
               /\ vlog[i].val # <<>>
               /\ PrimitiveLoad(vlog[i].kind, PrimitiveDump(vlog[i].val[1]))
                      = Loaded(vlog[i].val[1])

----------------------------------------------------------------------------
(* Claims about Object.Load, checked under SpecObjectLoad *)

ObjectLoads == {i \in 1..Len(vlog) : vlog[i].op = "ObjectLoad"}

\* the input has a value that is not nil for the key n
HasValue(m, n) == n \in DOMAIN m /\ m[n] # Nil

\* the member n of o fails its coercion or one of its validations on m[n]
MemberFails(o, m, n) ==
    \/ IsErr(PrimitiveLoad(o[n].Type, m[n]).err)
    \/ \E i \in DOMAIN o[n].Validations :
           IsErr(Validate1(o[n].Validations[i], n, ValOf(PrimitiveLoad(o[n].Type, m[n]))))

\* C22: Object.Load on a map returns an error exactly when a declared member
\* that has a non-nil value in the input fails its coercion or a validation;
\* otherwise it returns a map whose keys are exactly the declared members,
\* each with the coerced input value, or with the default of the member when
\* the input has no value for it; the keys that are not declared are dropped.
C22_ObjectLoad ==
    \A i \in ObjectLoads :
        LET o == vlog[i].o
            m == vlog[i].m
        IN  /\ IsErr(vlog[i].err) <=>
                   \E n \in DOMAIN o : HasValue(m, n) /\ MemberFails(o, m, n)
            /\ IsErr(vlog[i].err) => vlog[i].val = <<>>
            /\ ~IsErr(vlog[i].err) =>
                   /\ DOMAIN vlog[i].val[1] = DOMAIN o
                   /\ \A n \in DOMAIN o :
                          vlog[i].val[1][n] =
                              IF HasValue(m, n) THEN ValOf(PrimitiveLoad(o[n].Type, m[n]))
                              ELSE IF o[n].DefaultValue # <<>> THEN o[n].DefaultValue[1]
                              ELSE Nil

C22_Witness ==
    \E i \in ObjectLoads :
        /\ DOMAIN vlog[i].o = {"id", "name"}
        /\ DOMAIN vlog[i].m = {"id", "extra"}
        /\ vlog[i].m["id"] = Value("uint8", "12")
        /\ vlog[i].err = NoErr
        /\ vlog[i].val[1] = [n \in {"id", "name"} |->
                                IF n = "id" THEN Value("int", "12") ELSE Value("string", "x")]

----------------------------------------------------------------------------
(* Claims about the validation functions, checked under SpecFormat *)

FormatCalls == {i \in 1..Len(vlog) : vlog[i].op = "Format"}

\* C23: the Format validation returns nil for a nil value and for every
\* string that conforms to the named format, and an error for a value that is
\* not a string, for a string that does not conform and for an unknown
\* format name.
C23_FormatValidation ==
    \A i \in FormatCalls :
        LET f == vlog[i].f
            val == vlog[i].val
        IN  IF val = Nil THEN vlog[i].err = NoErr
            ELSE IF val.t # "string" THEN IsErr(vlog[i].err)
            ELSE IF f \notin FormatNames THEN IsErr(vlog[i].err)
            ELSE IF val.v \in Conforming[f] THEN vlog[i].err = NoErr
            ELSE IsErr(vlog[i].err)

----------------------------------------------------------------------------
(* Claims about media type identifiers, checked under SpecValidate *)

\* the media type has a name and no attribute of it names a view
NamedNoViews(m) == m.TypeName # "" /\ \A n \in DOMAIN m.Atts : m.Atts[n].View = ""

----------------------------------------------------------------------------
(* Claims about the application, checked under SpecMount *)

MountCalls == {i \in 1..Len(vlog) : vlog[i].op = "Mount"}

\* the Mount calls that returned
Mounted == {i \in MountCalls : vlog[i].panic = ""}

\* C27: in a sequence of Mount calls on one application, a Mount whose
\* resource has the RoutePrefix of an earlier Mount that returned panics and
\* registers no route and no handler.
C27_MountTwicePanics ==
    \A i \in MountCalls : \A j \in Mounted :
        (j < i /\ vlog[i].res # <<>>
               /\ vlog[i].res[1].RoutePrefix = vlog[j].res[1].RoutePrefix)
            => vlog[i].panic # "" /\ vlog[i].post = vlog[i].pre

\* the routes given to Multi by the actions of a mounted resource
MultiRoutesOf(res) ==
    {res[1].Actions[an].Route.routes :
         an \in {x \in DOMAIN res[1].Actions : res[1].Actions[x].Route.multi}}

\* C28: MultiRoute.GetRawRoutes returns one pair <<verb, path>> per route
\* given to Multi, in the same order, and nothing else, so that addHandlers
\* can read route[0] and route[1] of each.
C28_MultiRouteRawRoutes ==
    \A i \in MountCalls :
        vlog[i].res # <<>> =>
            \A m \in MultiRoutesOf(vlog[i].res) :
                /\ Len(MultiGetRawRoutes(m)) = Len(m)
                /\ \A k \in 1..Len(m) :
                       k \in DOMAIN MultiGetRawRoutes(m)
                           /\ MultiGetRawRoutes(m)[k] = <<m[k].Verb, m[k].Path>>

----------------------------------------------------------------------------
(* Claims about the generated code, checked under SpecContext *)

Events(op) == {i \in 1..Len(vlog) : vlog[i].op = op}

\* C25: in the handler of an action the controller is called only after the
\* context constructor returned no error; when the constructor returns an
\* error the handler returns that error and never calls the controller.
C25_ControllerOnlyAfterContext ==
    /\ \A i \in Events("Controller") :
           \E j \in Events("New") : j < i /\ vlog[j].err = NoErr /\ vlog[j].ctx # <<>>
    /\ \A j \in Events("New") :
           IsErr(vlog[j].err) =>
               /\ Events("Controller") = {}
               /\ \A i \in 1..Len(vlog) :
                      i > j => vlog[i].op = "Return" /\ vlog[i].err = vlog[j].err

C25_Witness ==
    \E j \in Events("New") : \E i \in Events("Return") :
        IsErr(vlog[j].err) /\ vlog[i].err = vlog[j].err

\* the fields of the request the constructor must report: the required
\* headers and parameters that are missing, the parameters that do not parse
\* and the payload that does not load
IllTyped(c, req, name) ==
    /\ name \in DOMAIN req.params
    /\ CASE c.Params[name].Kind = "Boolean" ->
                req.params[name] \notin ParseBoolTrue \cup ParseBoolFalse
         [] c.Params[name].Kind = "Integer" -> ParseInt(req.params[name]) = <<>>
         [] c.Params[name].Kind = "Number" -> ParseFloat(req.params[name]) = <<>>
         [] OTHER -> FALSE

Problems(c, req) ==
    {name \in DOMAIN c.Headers : c.Headers[name].Required /\ name \notin req.headers}
    \cup {name \in DOMAIN c.Params :
              \/ c.Params[name].Required /\ name \notin DOMAIN req.params
              \/ IllTyped(c, req, name)}
    \cup (IF c.Payload /\ req.payload = "bad" THEN {"payload"} ELSE {})

Reported(err) == {err[k][2] : k \in DOMAIN err}

\* C26: in a context constructor a coercion failure stops only its field: the
\* parameters that parse are still set, and the error returned reports every
\* missing or ill-typed field of the request, not only one of them.
C26_EveryProblemReported ==
    \A j \in Events("New") :
        /\ IsErr(vlog[j].err) <=> Problems(run.c, run.req) # {}
        /\ Problems(run.c, run.req) \subseteq Reported(vlog[j].err)
        /\ vlog[j].ctx # <<>> =>
               \A name \in DOMAIN run.c.Params :
                   (name \in DOMAIN run.req.params /\ ~IllTyped(run.c, run.req, name))
                       => name \in DOMAIN vlog[j].ctx[1].fields

\* the name is a wildcard of the route
IsWildcardOf(route, name) == \E k \in DOMAIN route.Params : route.Params[k] = name

\* C29: for every parameter of an action IsPathParam is true exactly when the
\* name is a wildcard of every route of the action, and false when it has no
\* route; exactly one of MustValidate (required, not a path parameter: a
\* presence test is generated), MustSetHas (optional, not a path parameter: a
\* Has field is generated) and IsPathParam (neither is generated) holds.
C29_PathParamCases ==
    Events("New") # {} =>
        \A name \in DOMAIN run.c.Params :
            LET pp == IsPathParam(run.c, name)
                mv == MustValidate(run.c, name)
                mh == MustSetHas(run.c, name)
            IN  /\ pp <=> (run.c.Routes # <<>>
                           /\ \A i \in DOMAIN run.c.Routes : IsWildcardOf(run.c.Routes[i], name))
                /\ (pp /\ ~mv /\ ~mh) \/ (~pp /\ mv /\ ~mh) \/ (~pp /\ ~mv /\ mh)
                /\ mv <=> (run.c.Params[name].Required /\ ~pp)
                /\ mh <=> (~run.c.Params[name].Required /\ ~pp)
                /\ GenParam(run.c, name) = [check |-> mv, has |-> mh]
                /\ pp => \A j \in Events("New") :
                             vlog[j].ctx # <<>> => name \notin vlog[j].ctx[1].has

C29_Witness ==
    /\ Events("New") # {}
    /\ Len(run.c.Routes) = 2
    /\ DOMAIN run.c.Params = {"id", "page"}
    /\ ~IsPathParam(run.c, "id")
    /\ IsWildcardOf(run.c.Routes[1], "id")
    /\ MustValidate(run.c, "id")
    /\ MustSetHas(run.c, "page")

\* C30: a response method sends once, with the status declared for its
\* response: the status and a nil body when the response has no media type,
\* the status and the result of Dump when it has one; when Dump fails it
\* sends nothing and returns the error.
C30_ResponseSentOnce ==
    \A i \in Events("Respond") :
        LET resp == run.c.Responses[vlog[i].name]
        IN  IF resp.MediaType = ""
            THEN vlog[i].sent = <<[status |-> resp.Status, body |-> "nil"]>>
            ELSE IF vlog[i].dumpFails
            THEN vlog[i].sent = <<>> /\ IsErr(vlog[i].err)
            ELSE vlog[i].sent = <<[status |-> resp.Status, body |-> "dump"]>>
                 /\ vlog[i].err = NoErr

C30_Witness ==
    \E i \in Events("Respond") :
        /\ vlog[i].name = "OK"
        /\ vlog[i].dumpFails
        /\ vlog[i].sent = <<>>
        /\ IsErr(vlog[i].err)
====
